---- MODULE Spec2Model ----
(***************************************************************************)
(* Model of the serial UPDI stack of pymcuprog: the application layer      *)
(* (serialupdi/application.py) and the NVM controller drivers P:0, P:4 and *)
(* P:5 (serialupdi/nvmp0.py, nvmp4.py, nvmp5.py).                          *)
(*                                                                         *)
(* Every method is translated into its list of statements (a "code"        *)
(* sequence); the action of a method starts a call and then executes the   *)
(* statements one at a time.  Values returned by the target (status        *)
(* registers, SIB) and the reading of the clock by Timeout.expired() are   *)
(* the nondeterministic inputs of a statement.  `wire` records, in order,  *)
(* the read/write-layer operations the current call has performed.         *)
(***************************************************************************)
EXTENDS Integers, Sequences, FiniteSets, TLC

VARIABLES
    app,    \* the UpdiApplication object: datalink, readwrite, nvm driver
    call,   \* the method call in progress (or the last one finished) and its locals
    wire,   \* read/write-layer operations performed by that call, in order
    ctrla   \* value last written to the target's NVMCTRL CTRLA register

vars == <<app, call, wire, ctrla>>

----------------------------------------------------------------------------
(* Bounds of the model *)

\* Largest number of status reads one polling loop performs before its
\* Timeout is found expired.
MaxPolls == 2

\* Largest number of datalink/readwrite rebuilds followed in one session.
MaxRebuilds == 2

\* Number of nested frames of one method at which the interpreter raises
\* RecursionError.
MaxFrames == 3

\* Least time, in milliseconds, by which the clock advances while one status
\* read is made.
MinReadMs == 4

----------------------------------------------------------------------------
(* Python integer operators on bytes *)

Bit(x, n) == (x \div (2 ^ n)) % 2

BitAnd(x, m) ==
    LET b(i) == Bit(x, i) * Bit(m, i) * (2 ^ i)
    IN  b(0) + b(1) + b(2) + b(3) + b(4) + b(5) + b(6) + b(7)

BitOr(x, m) == x + m - BitAnd(x, m)

ShiftRight(x, n) == x \div (2 ^ n)

ShiftLeft(x, n) == x * (2 ^ n)

Bytes == 0 .. 255

----------------------------------------------------------------------------
(* serialupdi/constants.py *)

UPDI_KEY_64 == 0
UPDI_CS_STATUSA == 0
UPDI_CS_CTRLB == 3
UPDI_ASI_KEY_STATUS == 7
UPDI_ASI_RESET_REQ == 8
UPDI_ASI_SYS_CTRLA == 10
UPDI_ASI_SYS_STATUS == 11
UPDI_CTRLB_CCDETDIS_BIT == 3
UPDI_CTRLB_UPDIDIS_BIT == 2
\* b"NVMProg ", b"NVMErase", b"NVMUs&te" as byte values
UPDI_KEY_NVM == <<78, 86, 77, 80, 114, 111, 103, 32>>
UPDI_KEY_CHIPERASE == <<78, 86, 77, 69, 114, 97, 115, 101>>
UPDI_KEY_UROW == <<78, 86, 77, 85, 115, 38, 116, 101>>
UPDI_ASI_KEY_STATUS_CHIPERASE == 3
UPDI_ASI_KEY_STATUS_NVMPROG == 4
UPDI_ASI_KEY_STATUS_UROWWRITE == 5
UPDI_ASI_SYS_STATUS_NVMPROG == 3
UPDI_ASI_SYS_STATUS_UROWPROG == 2
UPDI_ASI_SYS_STATUS_LOCKSTATUS == 0
UPDI_ASI_SYS_CTRLA_UROW_FINAL == 1
UPDI_RESET_REQ_VALUE == 89
UPDI_MAX_REPEAT_SIZE == 256

----------------------------------------------------------------------------
(* The target description consumed by the drivers (nvmserialupdi.Dut) *)

nvmctrl_address == 4096

----------------------------------------------------------------------------
(* NVM controller register maps and commands *)

P0_NVMCTRL_CTRLA == 0
P0_NVMCTRL_STATUS == 2
P0_NVMCTRL_DATA == 6
P0_NVMCTRL_ADDR == 8
P0_NVMCMD_WRITE_PAGE == 1
P0_NVMCMD_ERASE_PAGE == 2
P0_NVMCMD_ERASE_WRITE_PAGE == 3
P0_NVMCMD_PAGE_BUFFER_CLR == 4
P0_NVMCMD_CHIP_ERASE == 5
P0_NVMCMD_ERASE_EEPROM == 6
P0_NVMCMD_WRITE_FUSE == 7
P0_STATUS_WRITE_ERROR_bp == 2
P0_STATUS_EEPROM_BUSY_bp == 1
P0_STATUS_FLASH_BUSY_bp == 0

P4_NVMCTRL_CTRLA == 0
P4_NVMCTRL_STATUS == 6
P4_NVMCMD_NOCMD == 0
P4_NVMCMD_FLASH_WRITE == 2
P4_NVMCMD_FLASH_PAGE_ERASE == 8
P4_NVMCMD_EEPROM_ERASE_WRITE == 19
P4_NVMCMD_CHIP_ERASE == 32
P4_NVMCMD_EEPROM_ERASE == 48
P4_STATUS_WRITE_ERROR_bm == 112
P4_STATUS_WRITE_ERROR_bp == 4
P4_STATUS_EEPROM_BUSY_bp == 0
P4_STATUS_FLASH_BUSY_bp == 1

P5_NVMCTRL_CTRLA == 0
P5_NVMCTRL_STATUS == 6
P5_NVMCMD_NOCMD == 0
P5_NVMCMD_FLASH_PAGE_WRITE == 4
P5_NVMCMD_FLASH_PAGE_ERASE == 8
P5_NVMCMD_FLASH_PAGE_BUFFER_CLEAR == 15
P5_NVMCMD_EEPROM_PAGE_ERASE_WRITE == 21
P5_NVMCMD_EEPROM_PAGE_BUFFER_CLEAR == 31
P5_NVMCMD_CHIP_ERASE == 32
P5_NVMCMD_EEPROM_ERASE == 48
P5_STATUS_WRITE_ERROR_bm == 112
P5_STATUS_WRITE_ERROR_bp == 4
P5_STATUS_EEPROM_BUSY_bp == 0
P5_STATUS_FLASH_BUSY_bp == 1

----------------------------------------------------------------------------
(* Statements and wire operations *)

\* One statement of a method: kind i and up to three operands.
Stmt(i, a, b, c) == [i |-> i, a |-> a, b |-> b, c |-> c]

\* One read/write-layer operation: kind, address (or register, or size code)
\* and the bytes written (empty for a read).
WireOp(w, a, d) == [w |-> w, a |-> a, d |-> d]

NoArgs == [address |-> 0, data |-> <<>>, size |-> 0]
Args(address, data, size) == [address |-> address, data |-> data, size |-> size]

NoSibInfo(k) == [k |-> k, family |-> <<>>, NVM |-> <<>>, OCD |-> <<>>, OSC |-> <<>>,
                 extra |-> <<>>]

\* The locals of a call that has just been entered.  rd is the value the most
\* recent read returned (reads = 1 once there was one), rx the values returned
\* by the control/status reads so far, sibs the SIBs received so far and entry
\* the application object as it was when the call was entered.
NewCall(name, args, entry) ==
    [op |-> name, args |-> args, pc |-> 1, out |-> "running", ret |-> "None",
     code |-> 0, status |-> "None", polls |-> 0, expired |-> FALSE,
     timeout_ms |-> 0, rd |-> 0, reads |-> 0, rx |-> <<>>, sibs |-> <<>>,
     sib_info |-> NoSibInfo("unread"), entry |-> entry]

State == [app |-> app, call |-> call, wire |-> wire, ctrla |-> ctrla]

Emit(s, e) == [s EXCEPT !.wire = Append(@, e)]
Goto(s, n) == [s EXCEPT !.call.pc = n, !.call.polls = 0]
Advance(s) == Goto(s, s.call.pc + 1)
Return(s, v) == [s EXCEPT !.call.pc = 0, !.call.out = "ok", !.call.ret = v, !.call.polls = 0]
Raise(s, kind, code) ==
    [s EXCEPT !.call.pc = 0, !.call.out = kind, !.call.code = code, !.call.polls = 0]

\* The value a read returned becomes the most recent value read.
Received(s, v) == [s EXCEPT !.call.rd = v, !.call.reads = 1]

\* Timeout.expired(): the clock is read at the head of every loop iteration.
Expired(s, ms, e) == [s EXCEPT !.call.timeout_ms = ms, !.call.expired = e]
Polled(s) == [s EXCEPT !.call.polls = @ + 1]

----------------------------------------------------------------------------
(* serialupdi/readwrite.py: the operations as they appear on the wire log *)

RW_read_cs(s, address, v) ==
    LET t == Received(Emit(s, WireOp("read_cs", address, <<>>)), v)
    IN  [t EXCEPT !.call.rx = Append(@, v)]
RW_write_cs(s, address, value) == Emit(s, WireOp("write_cs", address, <<value>>))
RW_write_key(s, size, key) == Emit(s, WireOp("write_key", size, key))
RW_read_byte(s, address, v) == Received(Emit(s, WireOp("read_byte", address, <<>>)), v)

\* A write of CTRLA of the NVM controller changes the command register.
RW_write_byte(s, address, value) ==
    LET t == Emit(s, WireOp("write_byte", address, <<value>>))
    IN  IF address = nvmctrl_address THEN [t EXCEPT !.ctrla = value] ELSE t

RW_read_sib(s, sib) ==
    LET t == Emit(s, WireOp("read_sib", 0, <<>>))
    IN  [t EXCEPT !.call.sibs = Append(@, sib)]

RW_read_data(s, address, size) == Emit(s, WireOp("read_data", address, <<size>>))
RW_read_data_words(s, address, words) == Emit(s, WireOp("read_data_words", address, <<words>>))

\* UpdiPhysical.send_double_break as seen by the application layer.
PHY_send_double_break(s) == Emit(s, WireOp("double_break", 0, <<>>))

RW_write_data(s, address, data) == Emit(s, WireOp("write_data", address, data))
RW_write_data_words(s, address, data) == Emit(s, WireOp("write_data_words", address, data))

----------------------------------------------------------------------------
(* wait_nvm_ready: one iteration of the polling loop, clock check included. *)
(* expired is the result of timeout.expired(), status the byte read from    *)
(* the STATUS register when the loop body runs.                             *)

WaitLoop(k) == [k |-> k, v |-> "None", code |-> 0]
WaitReturn(v) == [k |-> "return", v |-> v, code |-> 0]
WaitRaise(code) == [k |-> "raise", v |-> "None", code |-> code]

P0_wait_nvm_ready(expired, status) ==
    IF expired THEN WaitReturn("False")
    ELSE IF BitAnd(status, ShiftLeft(1, P0_STATUS_WRITE_ERROR_bp)) # 0
         THEN WaitRaise(1)
    ELSE IF BitAnd(status, BitOr(ShiftLeft(1, P0_STATUS_EEPROM_BUSY_bp),
                                 ShiftLeft(1, P0_STATUS_FLASH_BUSY_bp))) = 0
         THEN WaitReturn("True")
    ELSE WaitLoop("loop")

\* Variant of the P:4 loop that looks at the EEPROM busy bit only.
P4_wait_nvm_ready_eeprom_only(expired, status) ==
    IF expired THEN WaitReturn("False")
    ELSE IF BitAnd(status, P4_STATUS_WRITE_ERROR_bm) # 0
         THEN WaitRaise(ShiftRight(status, P4_STATUS_WRITE_ERROR_bp))
    ELSE IF BitAnd(status, ShiftLeft(1, P4_STATUS_EEPROM_BUSY_bp)) = 0
         THEN WaitReturn("True")
    ELSE WaitLoop("loop")

P4_wait_nvm_ready(expired, status) ==
    IF expired THEN WaitReturn("False")
    ELSE IF BitAnd(status, P4_STATUS_WRITE_ERROR_bm) # 0
         THEN WaitRaise(ShiftRight(status, P4_STATUS_WRITE_ERROR_bp))
    ELSE IF BitAnd(status, BitOr(ShiftLeft(1, P4_STATUS_EEPROM_BUSY_bp),
                                 ShiftLeft(1, P4_STATUS_FLASH_BUSY_bp))) = 0
         THEN WaitReturn("True")
    ELSE WaitLoop("loop")

P5_wait_nvm_ready(expired, status) ==
    IF expired THEN WaitReturn("False")
    ELSE IF BitAnd(status, P5_STATUS_WRITE_ERROR_bm) # 0
         THEN WaitRaise(ShiftRight(status, P5_STATUS_WRITE_ERROR_bp))
    ELSE IF BitAnd(status, BitOr(ShiftLeft(1, P5_STATUS_EEPROM_BUSY_bp),
                                 ShiftLeft(1, P5_STATUS_FLASH_BUSY_bp))) = 0
         THEN WaitReturn("True")
    ELSE WaitLoop("loop")

\* Address of the STATUS register the variant's loop reads.
StatusAddress(variant) ==
    CASE variant = "P0" -> nvmctrl_address + P0_NVMCTRL_STATUS
      [] variant = "P4" -> nvmctrl_address + P4_NVMCTRL_STATUS
      [] variant = "P5" -> nvmctrl_address + P5_NVMCTRL_STATUS

wait_nvm_ready(variant, expired, status) ==
    CASE variant = "P0" -> P0_wait_nvm_ready(expired, status)
      [] variant = "P4" -> P4_wait_nvm_ready(expired, status)
      [] variant = "P5" -> P5_wait_nvm_ready(expired, status)

\* The state after one iteration of wait_nvm_ready(timeout_ms) and its outcome.
WaitNvmReadyIteration(s, variant, timeout_ms, inp) ==
    LET r == wait_nvm_ready(variant, inp.expire, inp.val)
        t == Expired(s, timeout_ms, inp.expire)
    IN  [r |-> r,
         s |-> IF inp.expire THEN t
               ELSE Polled(RW_read_byte(t, StatusAddress(variant), inp.val))]

----------------------------------------------------------------------------
(* The application object (UpdiApplication.__init__) *)

\* Objects are numbered in the order of their construction.
AppInit ==
    [datalink  |-> [id |-> 1, bits |-> 24, initialised |-> TRUE],
     readwrite |-> [id |-> 1, datalink |-> 1],
     nvm       |-> [kind |-> "NvmUpdi", readwrite |-> 1],
     built     |-> 1]

\* Python strings are sequences of character codes: '0', '2', '3', '4', '5'.
Chr(c) == <<c>>
Str0 == Chr(48)
Str2 == Chr(50)
Str3 == Chr(51)
Str4 == Chr(52)
Str5 == Chr(53)

\* Variant of the driver selection that installs every driver on the existing
\* read/write layer.
SelectDriver_on_existing_readwrite(a, nvmchar) ==
    IF nvmchar = Str0 THEN [a EXCEPT !.nvm = [kind |-> "P0", readwrite |-> a.readwrite.id]]
    ELSE IF nvmchar = Str2 THEN [a EXCEPT !.nvm = [kind |-> "P2", readwrite |-> a.readwrite.id]]
    ELSE IF nvmchar = Str3 THEN [a EXCEPT !.nvm = [kind |-> "P3", readwrite |-> a.readwrite.id]]
    ELSE IF nvmchar = Str4 THEN [a EXCEPT !.nvm = [kind |-> "P4", readwrite |-> a.readwrite.id]]
    ELSE IF nvmchar = Str5 THEN [a EXCEPT !.nvm = [kind |-> "P5", readwrite |-> a.readwrite.id]]
    ELSE a

\* Variant of the driver selection that takes an unknown NVM character for P:5.
SelectDriver_unknown_as_P5(a, nvmchar) ==
    IF nvmchar = Str0
    THEN LET n == a.built + 1
         IN  [datalink  |-> [id |-> n, bits |-> 16, initialised |-> TRUE],
              readwrite |-> [id |-> n, datalink |-> n],
              nvm       |-> [kind |-> "P0", readwrite |-> n],
              built     |-> n]
    ELSE IF nvmchar = Str2 THEN [a EXCEPT !.nvm = [kind |-> "P2", readwrite |-> a.readwrite.id]]
    ELSE IF nvmchar = Str3 THEN [a EXCEPT !.nvm = [kind |-> "P3", readwrite |-> a.readwrite.id]]
    ELSE IF nvmchar = Str4 THEN [a EXCEPT !.nvm = [kind |-> "P4", readwrite |-> a.readwrite.id]]
    ELSE [a EXCEPT !.nvm = [kind |-> "P5", readwrite |-> a.readwrite.id]]

\* The driver selection of read_device_info for the decoded NVM character.
SelectDriver(a, nvmchar) ==
    IF nvmchar = Str0
    THEN LET n == a.built + 1
         IN  [datalink  |-> [id |-> n, bits |-> 16, initialised |-> TRUE],
              readwrite |-> [id |-> n, datalink |-> n],
              nvm       |-> [kind |-> "P0", readwrite |-> n],
              built     |-> n]
    ELSE IF nvmchar = Str2 THEN [a EXCEPT !.nvm = [kind |-> "P2", readwrite |-> a.readwrite.id]]
    ELSE IF nvmchar = Str3 THEN [a EXCEPT !.nvm = [kind |-> "P3", readwrite |-> a.readwrite.id]]
    ELSE IF nvmchar = Str4 THEN [a EXCEPT !.nvm = [kind |-> "P4", readwrite |-> a.readwrite.id]]
    ELSE IF nvmchar = Str5 THEN [a EXCEPT !.nvm = [kind |-> "P5", readwrite |-> a.readwrite.id]]
    ELSE a

----------------------------------------------------------------------------
(* decode_sib: the SIB is a sequence of byte values *)

Min(a, b) == IF a < b THEN a ELSE b

\* b[lo:hi] of Python, for 0 <= lo <= hi.
Slice(b, lo, hi) == SubSeq(b, lo + 1, Min(hi, Len(b)))

\* bytes.strip(): ASCII whitespace is removed at both ends.
Whitespace == {9, 10, 11, 12, 13, 32}

RECURSIVE LStrip(_)
LStrip(b) == IF b # <<>> /\ Head(b) \in Whitespace THEN LStrip(Tail(b)) ELSE b

RECURSIVE RStrip(_)
RStrip(b) ==
    IF b # <<>> /\ b[Len(b)] \in Whitespace THEN RStrip(SubSeq(b, 1, Len(b) - 1)) ELSE b

Strip(b) == RStrip(LStrip(b))

Colon == 58

\* Positions of ':' in a string.
Colons(str) == {i \in 1 .. Len(str) : str[i] = Colon}

FirstColon(str) == CHOOSE i \in Colons(str) : \A j \in Colons(str) : i <= j

\* str.split(':')[1]: the text between the first ':' and the next one (or the
\* end).  Without a ':' the list has one element and [1] raises IndexError.
SplitSecond(str) ==
    LET rest == SubSeq(str, FirstColon(str) + 1, Len(str))
    IN  IF Colons(rest) = {} THEN rest ELSE SubSeq(rest, 1, FirstColon(rest) - 1)

\* Variant of decode_sib without the length check.
decode_sib_any_length(sib) ==
    IF \E i \in 1 .. Len(sib) : sib[i] >= 128 THEN NoSibInfo("None")
    ELSE LET nvm == Strip(Slice(sib, 8, 11))
             ocd == Strip(Slice(sib, 11, 14))
         IN  IF Colons(nvm) = {} THEN NoSibInfo("IndexError")
             ELSE IF Colons(ocd) = {} THEN NoSibInfo("IndexError")
             ELSE [k |-> "info", family |-> Strip(Slice(sib, 0, 7)), NVM |-> SplitSecond(nvm),
                   OCD |-> SplitSecond(ocd), OSC |-> Strip(Slice(sib, 15, 19)),
                   extra |-> Strip(Slice(sib, 19, Len(sib)))]

\* Variant of decode_sib that takes the NVM field one character further on.
decode_sib_nvm_from_9(sib) ==
    IF \E i \in 1 .. Len(sib) : sib[i] >= 128 THEN NoSibInfo("None")
    ELSE IF Len(sib) < 19 THEN NoSibInfo("None")
    ELSE LET nvm == Strip(Slice(sib, 9, 12))
             ocd == Strip(Slice(sib, 11, 14))
         IN  IF Colons(nvm) = {} THEN NoSibInfo("IndexError")
             ELSE IF Colons(ocd) = {} THEN NoSibInfo("IndexError")
             ELSE [k |-> "info", family |-> Strip(Slice(sib, 0, 7)), NVM |-> SplitSecond(nvm),
                   OCD |-> SplitSecond(ocd), OSC |-> Strip(Slice(sib, 15, 19)),
                   extra |-> Strip(Slice(sib, 19, Len(sib)))]

decode_sib(sib) ==
    IF \E i \in 1 .. Len(sib) : sib[i] >= 128 THEN NoSibInfo("None")
    ELSE IF Len(sib) < 19 THEN NoSibInfo("None")
    ELSE LET family == Strip(Slice(sib, 0, 7))
             nvm == Strip(Slice(sib, 8, 11))
             ocd == Strip(Slice(sib, 11, 14))
             osc == Strip(Slice(sib, 15, 19))
             extra == Strip(Slice(sib, 19, Len(sib)))
         IN  IF Colons(nvm) = {} THEN NoSibInfo("IndexError")
             ELSE IF Colons(ocd) = {} THEN NoSibInfo("IndexError")
             ELSE [k |-> "info", family |-> family, NVM |-> SplitSecond(nvm),
                   OCD |-> SplitSecond(ocd), OSC |-> osc, extra |-> extra]

----------------------------------------------------------------------------
(* The device signature *)

\* Variant of unpack_be24 that takes the first byte as the least significant.
unpack_le24(b) == b[1] + 256 * b[2] + 65536 * b[3]

\* binary.unpack_be24: three bytes as a number, most significant byte first.
unpack_be24(b) == 65536 * b[1] + 256 * b[2] + b[3]

----------------------------------------------------------------------------
(* Status predicates of the application layer *)

\* Variant of in_prog_mode that tests the LOCKSTATUS bit.
in_prog_mode_lockstatus(sys_status) ==
    BitAnd(sys_status, ShiftLeft(1, UPDI_ASI_SYS_STATUS_LOCKSTATUS)) # 0

\* in_prog_mode, for the value its read of ASI_SYS_STATUS returned.
in_prog_mode(sys_status) ==
    BitAnd(sys_status, ShiftLeft(1, UPDI_ASI_SYS_STATUS_NVMPROG)) # 0

\* Variant of wait_unlocked that polls the NVMPROG bit.
wait_unlocked_nvmprog(expired, sys_status) ==
    IF expired THEN WaitReturn("False")
    ELSE IF BitAnd(sys_status, ShiftLeft(1, UPDI_ASI_SYS_STATUS_NVMPROG)) = 0
         THEN WaitReturn("True")
    ELSE WaitLoop("loop")

\* wait_unlocked: one iteration of the loop, clock check included.
wait_unlocked(expired, sys_status) ==
    IF expired THEN WaitReturn("False")
    ELSE IF BitAnd(sys_status, ShiftLeft(1, UPDI_ASI_SYS_STATUS_LOCKSTATUS)) = 0
         THEN WaitReturn("True")
    ELSE WaitLoop("loop")

\* Variant of wait_urow_prog that waits for the bit to go high in both uses.
wait_urow_prog_high_only(expired, wait_for_high, sys_status) ==
    IF expired THEN WaitReturn("False")
    ELSE IF BitAnd(sys_status, ShiftLeft(1, UPDI_ASI_SYS_STATUS_UROWPROG)) # 0
         THEN WaitReturn("True")
    ELSE WaitLoop("loop")

\* wait_urow_prog: one iteration of the loop, clock check included.
wait_urow_prog(expired, wait_for_high, sys_status) ==
    IF expired THEN WaitReturn("False")
    ELSE IF wait_for_high
         THEN IF BitAnd(sys_status, ShiftLeft(1, UPDI_ASI_SYS_STATUS_UROWPROG)) # 0
              THEN WaitReturn("True") ELSE WaitLoop("loop")
    ELSE IF BitAnd(sys_status, ShiftLeft(1, UPDI_ASI_SYS_STATUS_UROWPROG)) = 0
         THEN WaitReturn("True")
    ELSE WaitLoop("loop")

\* isinstance(error, cls) for the error kinds of pymcuprog_errors.py: the
\* serial UPDI kinds derive from PymcuprogSerialUpdiError, every pymcuprog
\* kind from PymcuprogError (an Exception); none derives from IOError.
SerialUpdiKinds == {"SerialUpdiError", "Locked", "NvmError", "NvmTimeout", "ProtocolError"}
PymcuprogKinds == SerialUpdiKinds \cup {"DeviceLocked", "SessionError"}

IsInstance(kind, cls) ==
    IF cls = kind THEN TRUE
    ELSE IF cls = "SerialUpdiError" THEN kind \in SerialUpdiKinds
    ELSE IF cls = "PymcuprogError" THEN kind \in PymcuprogKinds
    ELSE FALSE

----------------------------------------------------------------------------
(* Inputs of a statement and its execution *)

\* Default timeout_ms of wait_nvm_ready.
WAIT_NVM_READY_TIMEOUT_MS == 100

\* STATUS values the controller returns to the waits inside driver operations:
\* idle, busy, and the error bit of P:0 (4) and of P:4/P:5 (16).
StatusSamples == {0, 1, 4, 16}

\* Values the target returns for ASI_SYS_STATUS and ASI_KEY_STATUS: the
\* combinations of LOCKSTATUS (1), NVMPROG of SYS_STATUS / CHIPERASE of
\* KEY_STATUS (8) and NVMPROG of KEY_STATUS (16).
CsSamples == {0, 1, 8, 9, 16, 24}

\* STATUSA: UPDI revision 3.
StatusASamples == {48}

\* SIB contents: "megaAVR P:cD:0-3M2 (A)" for an NVM character c.
SibFor(c) ==
    <<109, 101, 103, 97, 65, 86, 82, 32>> \o <<80, 58, c>> \o <<68, 58, 48>>
    \o <<45, 51, 77, 50, 32>> \o <<40, 65, 41>>

\* "tinyAVR P:0D:0-3M2 (A)"
SibTiny0 ==
    <<116, 105, 110, 121, 65, 86, 82, 32>> \o <<80, 58, 48>> \o <<68, 58, 48>>
    \o <<45, 51, 77, 50, 32>> \o <<40, 65, 41>>

\* "tinyAVR  NVM:0 OCD:0 PDI:0"
SibSpelledOut ==
    <<116, 105, 110, 121, 65, 86, 82, 32, 32, 78, 86, 77, 58, 48, 32,
      79, 67, 68, 58, 48, 32, 80, 68, 73, 58, 48>>

\* The SIBs a target (or a disturbed line) returns: the five supported NVM
\* characters and an unsupported one, a SIB cut to 19 and to 18 characters,
\* nothing, all-ones, a non-ASCII byte in the extra field, fields without ':'.
Sibs ==
    {SibFor(c) : c \in {48, 49, 50, 51, 52, 53}}
    \cup {SubSeq(SibFor(52), 1, 19), SubSeq(SibFor(48), 1, 18), <<>>}
    \cup {[i \in 1 .. 22 |-> 255], [SibFor(48) EXCEPT ![21] = 200]}
    \cup {SibSpelledOut, [SibFor(48) EXCEPT ![13] = 32], SibTiny0}

\* Values of ASI_KEY_STATUS after the user row key: UROWWRITE is bit 5.
UrowKeySamples == {0, 8, 32, 40}

\* Values of ASI_SYS_STATUS while the user row is written: LOCKSTATUS (1) and
\* UROWPROG (4).
UrowSamples == {0, 1, 4, 5}

\* What a read of three signature bytes returns: the signature of the device
\* in the order the target sends it and in the opposite order, the signature
\* of another device, a blank signature and a read that came up short.
Signatures == {<<30, 147, 39>>, <<39, 147, 30>>, <<30, 150, 81>>, <<0, 0, 0>>, <<30, 147>>}

\* A transfer that the physical layer reports as failed (echo mismatch).
LinkFault == [expire |-> FALSE, val |-> 0, fault |-> TRUE]

\* The call was made on a link that may fail.
LinkFaults(s) == "link_faults" \in DOMAIN s.call.args /\ s.call.args.link_faults

WaitStmts == {"wait_or_raise", "wait_status", "wait_return"}

CsReadStmts == {"in_prog_mode_return", "in_prog_mode_or_raise", "jump_unless_in_prog_mode",
                "key_status_or_raise"}

NoInput == [expire |-> FALSE, val |-> 0]

Samples(S) == {[expire |-> FALSE, val |-> v] : v \in S}

Inputs(s, st) ==
    IF st.i \in WaitStmts
    THEN {[expire |-> TRUE, val |-> 0]}
         \cup (IF s.call.polls < MaxPolls
               THEN Samples(IF st.i = "wait_return" THEN Bytes ELSE StatusSamples)
               ELSE {})
    ELSE IF st.i = "wait_unlocked_or_raise"
    THEN {[expire |-> TRUE, val |-> 0]}
         \cup (IF s.call.polls < MaxPolls THEN Samples(CsSamples) ELSE {})
    ELSE IF st.i = "wait_urow_prog"
    THEN {[expire |-> TRUE, val |-> 0]}
         \cup (IF s.call.polls < MaxPolls THEN Samples(UrowSamples) ELSE {})
    ELSE IF st.i = "key_status_or_raise" /\ st.a = UPDI_ASI_KEY_STATUS_UROWWRITE
    THEN Samples(UrowKeySamples)
    ELSE IF st.i = "write_cs" /\ LinkFaults(s) THEN {NoInput, LinkFault}
    ELSE IF st.i \in CsReadStmts THEN Samples(CsSamples)
    ELSE IF st.i = "read_cs" THEN Samples(StatusASamples)
    ELSE IF st.i = "read_sib" THEN Samples(Sibs)
    ELSE IF st.i = "read_signature" THEN Samples(Signatures)
    ELSE {NoInput}

\* if not self.wait_nvm_ready(): raise <st.c>
ExecWaitOrRaise(s, st, inp) ==
    LET it == WaitNvmReadyIteration(s, st.a, st.b, inp)
    IN  IF it.r.k = "loop" THEN it.s
        ELSE IF it.r.k = "raise" THEN Raise(it.s, "NvmError", it.r.code)
        ELSE IF it.r.v = "True" THEN Advance(it.s)
        ELSE Raise(it.s, st.c, 0)

\* status = self.wait_nvm_ready()
ExecWaitStatus(s, st, inp) ==
    LET it == WaitNvmReadyIteration(s, st.a, st.b, inp)
    IN  IF it.r.k = "loop" THEN it.s
        ELSE IF it.r.k = "raise" THEN Raise(it.s, "NvmError", it.r.code)
        ELSE Advance([it.s EXCEPT !.call.status = it.r.v])

\* a call of wait_nvm_ready itself
ExecWaitReturn(s, st, inp) ==
    LET it == WaitNvmReadyIteration(s, st.a, st.b, inp)
    IN  IF it.r.k = "loop" THEN it.s
        ELSE IF it.r.k = "raise" THEN Raise(it.s, "NvmError", it.r.code)
        ELSE Return(it.s, it.r.v)

\* if not status: raise <st.a>
ExecRaiseUnlessStatus(s, st) ==
    IF s.call.status = "True" THEN Advance(s) ELSE Raise(s, st.a, 0)

\* if self.in_prog_mode(): return <st.a>
ExecInProgModeReturn(s, st, inp) ==
    LET t == RW_read_cs(s, UPDI_ASI_SYS_STATUS, inp.val)
    IN  IF in_prog_mode(inp.val) THEN Return(t, st.a) ELSE Advance(t)

\* if not self.in_prog_mode(): raise <st.a>
ExecInProgModeOrRaise(s, st, inp) ==
    LET t == RW_read_cs(s, UPDI_ASI_SYS_STATUS, inp.val)
    IN  IF ~in_prog_mode(inp.val) THEN Raise(t, st.a, 0) ELSE Advance(t)

\* if self.in_prog_mode(): <next statements>, else continue at <st.a>
ExecJumpUnlessInProgMode(s, st, inp) ==
    LET t == RW_read_cs(s, UPDI_ASI_SYS_STATUS, inp.val)
    IN  IF in_prog_mode(inp.val) THEN Advance(t) ELSE Goto(t, st.a)

\* key_status = read_cs(ASI_KEY_STATUS); if not key_status & (1 << st.a): raise <st.b>
ExecKeyStatusOrRaise(s, st, inp) ==
    LET t == RW_read_cs(s, UPDI_ASI_KEY_STATUS, inp.val)
    IN  IF BitAnd(inp.val, ShiftLeft(1, st.a)) = 0 THEN Raise(t, st.b, 0) ELSE Advance(t)

\* if not self.wait_unlocked(st.a): raise <st.b>
ExecWaitUnlockedOrRaise(s, st, inp) ==
    LET r == wait_unlocked(inp.expire, inp.val)
        e == Expired(s, st.a, inp.expire)
        t == IF inp.expire THEN e ELSE Polled(RW_read_cs(e, UPDI_ASI_SYS_STATUS, inp.val))
    IN  IF r.k = "loop" THEN t
        ELSE IF r.v = "True" THEN Advance(t)
        ELSE Raise(t, st.b, 0)

\* sib = self.readwrite.read_sib(); sib_info = decode_sib(sib)
ExecReadSib(s, inp) ==
    LET t == RW_read_sib(s, inp.val)
        d == decode_sib(inp.val)
    IN  IF d.k = "IndexError" THEN Raise(t, "IndexError", 0)
        ELSE Advance([t EXCEPT !.call.sib_info = d])

\* if self.wait_urow_prog(st.a, wait_for_high=st.b): continue at <st.c>
ExecWaitUrowProg(s, st, inp) ==
    LET r == wait_urow_prog(inp.expire, st.b, inp.val)
        e == Expired(s, st.a, inp.expire)
        t == IF inp.expire THEN e ELSE Polled(RW_read_cs(e, UPDI_ASI_SYS_STATUS, inp.val))
    IN  IF r.k = "loop" THEN t
        ELSE IF r.v = "True" THEN Goto(t, st.c)
        ELSE Advance(t)

\* self.readwrite.write_cs(st.a, st.b); an exception of the link propagates.
ExecWriteCs(s, st, inp) ==
    IF "fault" \in DOMAIN inp
    THEN Raise(RW_write_cs(s, st.a, st.b), "ProtocolError", 0)
    ELSE Advance(RW_write_cs(s, st.a, st.b))

Exec(s, st, inp) ==
    CASE st.i = "wait_or_raise" -> ExecWaitOrRaise(s, st, inp)
      [] st.i = "wait_urow_prog" -> ExecWaitUrowProg(s, st, inp)
      [] st.i = "raise" -> Raise(s, st.a, 0)
      [] st.i = "in_prog_mode_return" -> ExecInProgModeReturn(s, st, inp)
      [] st.i = "in_prog_mode_or_raise" -> ExecInProgModeOrRaise(s, st, inp)
      [] st.i = "jump_unless_in_prog_mode" -> ExecJumpUnlessInProgMode(s, st, inp)
      [] st.i = "key_status_or_raise" -> ExecKeyStatusOrRaise(s, st, inp)
      [] st.i = "wait_unlocked_or_raise" -> ExecWaitUnlockedOrRaise(s, st, inp)
      [] st.i = "read_sib" -> ExecReadSib(s, inp)
      [] st.i = "jump_unless_sib_none" ->
            IF s.call.sib_info.k = "None" THEN Advance(s) ELSE Goto(s, st.a)
      [] st.i = "raise_if_sib_none" ->
            IF s.call.sib_info.k = "None" THEN Raise(s, st.a, 0) ELSE Advance(s)
      [] st.i = "double_break" -> Advance(PHY_send_double_break(s))
      [] st.i = "select_driver" ->
            Advance([s EXCEPT !.app = SelectDriver(s.app, s.call.sib_info.NVM)])
      [] st.i = "read_cs" -> Advance(RW_read_cs(s, st.a, inp.val))
      [] st.i = "read_data" -> Advance(RW_read_data(s, st.a, st.b))
      [] st.i = "read_data_words" -> Advance(RW_read_data_words(s, st.a, st.b))
      [] st.i = "datalink" -> Advance(Emit(s, WireOp(st.a, st.b, st.c)))
      [] st.i = "pagealign" -> Advance(s)
      [] st.i = "call" -> Advance(Emit(s, WireOp(st.a, st.b, st.c)))
      [] st.i = "call_self" ->
            IF s.call.frames < MaxFrames
            THEN [s EXCEPT !.call.frames = @ + 1]
            ELSE Raise(s, "RecursionError", 0)
      [] st.i = "read_signature" ->
            Advance([RW_read_data(s, st.a, st.b) EXCEPT !.call.sig = inp.val])
      [] st.i = "raise_unless_len" ->
            IF Len(s.call.sig) # st.a THEN Raise(s, st.b, 0) ELSE Advance(s)
      [] st.i = "raise_unless_device_id" ->
            IF st.a = unpack_be24(s.call.sig) THEN Advance(s) ELSE Raise(s, st.b, 0)
      [] st.i = "return_swapped" ->
            Return(s, <<s.call.sig[3], s.call.sig[2], s.call.sig[1]>>)
      [] st.i = "write_cs" -> ExecWriteCs(s, st, inp)
      [] st.i = "write_key" -> Advance(RW_write_key(s, st.a, st.b))
      [] st.i = "return" -> Return(s, st.a)
      [] st.i = "wait_status" -> ExecWaitStatus(s, st, inp)
      [] st.i = "wait_return" -> ExecWaitReturn(s, st, inp)
      [] st.i = "raise_unless_status" -> ExecRaiseUnlessStatus(s, st)
      [] st.i = "write_byte" -> Advance(RW_write_byte(s, st.a, st.b))
      [] st.i = "write_data" -> Advance(RW_write_data(s, st.a, st.b))
      [] st.i = "write_data_words" -> Advance(RW_write_data_words(s, st.a, st.b))

\* Running off the end of a method returns None.
Finish(s, n) == IF s.call.pc > n THEN Return(s, "None") ELSE s

Become(s) ==
    /\ app' = s.app
    /\ call' = s.call
    /\ wire' = s.wire
    /\ ctrla' = s.ctrla

\* The action of a method: enter it when no call is in progress, then execute
\* its statements in order until it returns or raises.
Run(enabled, name, args, code) ==
    IF call.pc = 0
    THEN /\ enabled
         /\ call' = NewCall(name, args, app)
         /\ wire' = <<>>
         /\ UNCHANGED <<app, ctrla>>
    ELSE /\ enabled
         /\ call.op = name
         /\ call.args = args
         /\ \E inp \in Inputs(State, code[call.pc]) :
                Become(Finish(Exec(State, code[call.pc], inp), Len(code)))

----------------------------------------------------------------------------
(* serialupdi/nvmp4.py *)

P4_WaitOrRaise == Stmt("wait_or_raise", "P4", WAIT_NVM_READY_TIMEOUT_MS, "NvmTimeout")
P4_WaitStatus == Stmt("wait_status", "P4", WAIT_NVM_READY_TIMEOUT_MS, 0)
RaiseUnlessStatus == Stmt("raise_unless_status", "NvmTimeout", 0, 0)

P4_execute_nvm_command(command) ==
    Stmt("write_byte", nvmctrl_address + P4_NVMCTRL_CTRLA, command, 0)

\* Variant of chip_erase that leaves the command in CTRLA.
P4_chip_erase_code_without_nocmd ==
    << P4_WaitOrRaise,
       P4_execute_nvm_command(P4_NVMCMD_CHIP_ERASE),
       P4_WaitStatus,
       RaiseUnlessStatus >>

P4_chip_erase_code ==
    << P4_WaitOrRaise,
       P4_execute_nvm_command(P4_NVMCMD_CHIP_ERASE),
       P4_WaitStatus,
       P4_execute_nvm_command(P4_NVMCMD_NOCMD),
       RaiseUnlessStatus >>

P4_erase_flash_page_code(address) ==
    << P4_WaitOrRaise,
       P4_execute_nvm_command(P4_NVMCMD_FLASH_PAGE_ERASE),
       Stmt("write_data", address, <<255>>, 0),
       P4_WaitStatus,
       P4_execute_nvm_command(P4_NVMCMD_NOCMD),
       RaiseUnlessStatus >>

P4_erase_eeprom_code ==
    << P4_WaitOrRaise,
       P4_execute_nvm_command(P4_NVMCMD_EEPROM_ERASE),
       P4_WaitStatus,
       P4_execute_nvm_command(P4_NVMCMD_NOCMD),
       RaiseUnlessStatus >>

P4_erase_user_row_code(address, size) == P4_erase_flash_page_code(address)

P4_write_nvm_code(address, data, use_word_access) ==
    << P4_WaitOrRaise,
       P4_execute_nvm_command(P4_NVMCMD_FLASH_WRITE),
       IF use_word_access
       THEN Stmt("write_data_words", address, data, 0)
       ELSE Stmt("write_data", address, data, 0),
       P4_WaitStatus,
       P4_execute_nvm_command(P4_NVMCMD_NOCMD),
       RaiseUnlessStatus >>

P4_write_flash_code(address, data) == P4_write_nvm_code(address, data, TRUE)

P4_write_user_row_code(address, data) == P4_write_nvm_code(address, data, FALSE)

\* Variant of write_eeprom that writes the payload with word access.
P4_write_eeprom_code_word_access(address, data) ==
    << P4_WaitOrRaise,
       P4_execute_nvm_command(P4_NVMCMD_EEPROM_ERASE_WRITE),
       Stmt("write_data_words", address, data, 0),
       P4_WaitStatus,
       P4_execute_nvm_command(P4_NVMCMD_NOCMD),
       RaiseUnlessStatus >>

P4_write_eeprom_code(address, data) ==
    << P4_WaitOrRaise,
       P4_execute_nvm_command(P4_NVMCMD_EEPROM_ERASE_WRITE),
       Stmt("write_data", address, data, 0),
       P4_WaitStatus,
       P4_execute_nvm_command(P4_NVMCMD_NOCMD),
       RaiseUnlessStatus >>

P4_write_fuse_code(address, data) == P4_write_eeprom_code(address, data)

----------------------------------------------------------------------------
(* serialupdi/nvmp5.py *)

P5_WaitOrRaise == Stmt("wait_or_raise", "P5", WAIT_NVM_READY_TIMEOUT_MS, "NvmTimeout")
P5_WaitStatus == Stmt("wait_status", "P5", WAIT_NVM_READY_TIMEOUT_MS, 0)

P5_execute_nvm_command(command) ==
    Stmt("write_byte", nvmctrl_address + P5_NVMCTRL_CTRLA, command, 0)

P5_chip_erase_code ==
    << P5_WaitOrRaise,
       P5_execute_nvm_command(P5_NVMCMD_CHIP_ERASE),
       P5_WaitStatus,
       P5_execute_nvm_command(P5_NVMCMD_NOCMD),
       RaiseUnlessStatus >>

\* Variant of erase_flash_page that issues the command before the dummy write.
P5_erase_flash_page_code_command_first(address) ==
    << P5_WaitOrRaise,
       P5_execute_nvm_command(P5_NVMCMD_FLASH_PAGE_ERASE),
       Stmt("write_data", address, <<255>>, 0),
       P5_WaitStatus,
       P5_execute_nvm_command(P5_NVMCMD_NOCMD),
       RaiseUnlessStatus >>

P5_erase_flash_page_code(address) ==
    << P5_WaitOrRaise,
       Stmt("write_data", address, <<255>>, 0),
       P5_execute_nvm_command(P5_NVMCMD_FLASH_PAGE_ERASE),
       P5_WaitStatus,
       P5_execute_nvm_command(P5_NVMCMD_NOCMD),
       RaiseUnlessStatus >>

P5_erase_eeprom_code ==
    << P5_WaitOrRaise,
       P5_execute_nvm_command(P5_NVMCMD_EEPROM_ERASE),
       P5_WaitStatus,
       P5_execute_nvm_command(P5_NVMCMD_NOCMD),
       RaiseUnlessStatus >>

P5_erase_user_row_code(address, size) == P5_erase_flash_page_code(address)

\* Variant of write_nvm without the ready-wait after the page-buffer clear.
P5_write_nvm_code_single_wait(address, data, use_word_access, nvmcommand, erasebuffer_command) ==
    << P5_WaitOrRaise,
       P5_execute_nvm_command(erasebuffer_command),
       IF use_word_access
       THEN Stmt("write_data_words", address, data, 0)
       ELSE Stmt("write_data", address, data, 0),
       P5_execute_nvm_command(nvmcommand),
       P5_WaitOrRaise,
       P5_execute_nvm_command(P5_NVMCMD_NOCMD) >>

P5_write_nvm_code(address, data, use_word_access, nvmcommand, erasebuffer_command) ==
    << P5_WaitOrRaise,
       P5_execute_nvm_command(erasebuffer_command),
       P5_WaitOrRaise,
       IF use_word_access
       THEN Stmt("write_data_words", address, data, 0)
       ELSE Stmt("write_data", address, data, 0),
       P5_execute_nvm_command(nvmcommand),
       P5_WaitOrRaise,
       P5_execute_nvm_command(P5_NVMCMD_NOCMD) >>

P5_write_flash_code(address, data) ==
    P5_write_nvm_code(address, data, TRUE,
                      P5_NVMCMD_FLASH_PAGE_WRITE, P5_NVMCMD_FLASH_PAGE_BUFFER_CLEAR)

\* Variant of write_user_row that writes the payload with byte access.
P5_write_user_row_code_byte_access(address, data) ==
    P5_write_nvm_code(address, data, FALSE,
                      P5_NVMCMD_FLASH_PAGE_WRITE, P5_NVMCMD_FLASH_PAGE_BUFFER_CLEAR)

P5_write_user_row_code(address, data) ==
    P5_write_nvm_code(address, data, TRUE,
                      P5_NVMCMD_FLASH_PAGE_WRITE, P5_NVMCMD_FLASH_PAGE_BUFFER_CLEAR)

P5_write_eeprom_code(address, data) ==
    P5_write_nvm_code(address, data, FALSE,
                      P5_NVMCMD_EEPROM_PAGE_ERASE_WRITE, P5_NVMCMD_EEPROM_PAGE_BUFFER_CLEAR)

P5_write_fuse_code(address, data) == P5_write_eeprom_code(address, data)

----------------------------------------------------------------------------
(* serialupdi/nvmp0.py *)

P0_WaitOrRaise == Stmt("wait_or_raise", "P0", WAIT_NVM_READY_TIMEOUT_MS, "NvmTimeout")

P0_execute_nvm_command(command) ==
    Stmt("write_byte", nvmctrl_address + P0_NVMCTRL_CTRLA, command, 0)

P0_chip_erase_code ==
    << P0_WaitOrRaise,
       P0_execute_nvm_command(P0_NVMCMD_CHIP_ERASE),
       P0_WaitOrRaise >>

P0_erase_flash_page_code(address) ==
    << P0_WaitOrRaise,
       Stmt("write_data", address, <<255>>, 0),
       P0_execute_nvm_command(P0_NVMCMD_ERASE_PAGE),
       P0_WaitOrRaise >>

P0_erase_eeprom_code ==
    << P0_WaitOrRaise,
       P0_execute_nvm_command(P0_NVMCMD_ERASE_EEPROM),
       P0_WaitOrRaise >>

P0_erase_user_row_code(address, size) ==
    << P0_WaitOrRaise >>
    \o [offset \in 1 .. size |-> Stmt("write_data", address + (offset - 1), <<255>>, 0)]
    \o << P0_execute_nvm_command(P0_NVMCMD_ERASE_PAGE),
          P0_WaitOrRaise >>

\* Variant of write_nvm that commits before it loads the page buffer.
P0_write_nvm_code_commit_first(address, data, use_word_access, nvmcommand) ==
    << P0_WaitOrRaise,
       P0_execute_nvm_command(P0_NVMCMD_PAGE_BUFFER_CLR),
       P0_WaitOrRaise,
       P0_execute_nvm_command(nvmcommand),
       IF use_word_access
       THEN Stmt("write_data_words", address, data, 0)
       ELSE Stmt("write_data", address, data, 0),
       P0_WaitOrRaise >>

P0_write_nvm_code(address, data, use_word_access, nvmcommand) ==
    << P0_WaitOrRaise,
       P0_execute_nvm_command(P0_NVMCMD_PAGE_BUFFER_CLR),
       P0_WaitOrRaise,
       IF use_word_access
       THEN Stmt("write_data_words", address, data, 0)
       ELSE Stmt("write_data", address, data, 0),
       P0_execute_nvm_command(nvmcommand),
       P0_WaitOrRaise >>

P0_write_flash_code(address, data) ==
    P0_write_nvm_code(address, data, TRUE, P0_NVMCMD_WRITE_PAGE)

P0_write_eeprom_code(address, data) ==
    P0_write_nvm_code(address, data, FALSE, P0_NVMCMD_ERASE_WRITE_PAGE)

P0_write_user_row_code(address, data) == P0_write_eeprom_code(address, data)

\* Variant of write_fuse that executes the command before it loads the data.
P0_write_fuse_code_command_before_data(address, data) ==
    << P0_WaitOrRaise,
       Stmt("write_byte", nvmctrl_address + P0_NVMCTRL_ADDR, BitAnd(address, 255), 0),
       Stmt("write_byte", nvmctrl_address + P0_NVMCTRL_ADDR + 1,
            BitAnd(ShiftRight(address, 8), 255), 0),
       P0_execute_nvm_command(P0_NVMCMD_WRITE_FUSE),
       Stmt("write_byte", nvmctrl_address + P0_NVMCTRL_DATA, BitAnd(data[1], 255), 0),
       P0_WaitOrRaise >>

P0_write_fuse_code(address, data) ==
    << P0_WaitOrRaise,
       Stmt("write_byte", nvmctrl_address + P0_NVMCTRL_ADDR, BitAnd(address, 255), 0),
       Stmt("write_byte", nvmctrl_address + P0_NVMCTRL_ADDR + 1,
            BitAnd(ShiftRight(address, 8), 255), 0),
       Stmt("write_byte", nvmctrl_address + P0_NVMCTRL_DATA, BitAnd(data[1], 255), 0),
       P0_execute_nvm_command(P0_NVMCMD_WRITE_FUSE),
       P0_WaitOrRaise >>

----------------------------------------------------------------------------
(* The driver methods as actions *)

\* Arguments the callers pass: a flash and an EEPROM address, payloads of one
\* word and of two words, row sizes.
Addresses == {32768, 5120}
\* The addresses write_fuse is called with: the above and a fuse (0x1285).
FuseAddresses == Addresses \cup {4741}
Payloads == {<<1, 2>>, <<3, 4, 5, 6>>}
Sizes == {1, 2}

Driver(variant) == app.nvm.kind = variant

P4_chip_erase ==
    Run(Driver("P4"), "P4.chip_erase", NoArgs, P4_chip_erase_code)

P4_erase_flash_page ==
    \E address \in Addresses :
        Run(Driver("P4"), "P4.erase_flash_page", Args(address, <<>>, 0),
            P4_erase_flash_page_code(address))

P4_erase_eeprom ==
    Run(Driver("P4"), "P4.erase_eeprom", NoArgs, P4_erase_eeprom_code)

P4_erase_user_row ==
    \E address \in Addresses, size \in Sizes :
        Run(Driver("P4"), "P4.erase_user_row", Args(address, <<>>, size),
            P4_erase_user_row_code(address, size))

P4_write_flash ==
    \E address \in Addresses, data \in Payloads :
        Run(Driver("P4"), "P4.write_flash", Args(address, data, 0),
            P4_write_flash_code(address, data))

P4_write_user_row ==
    \E address \in Addresses, data \in Payloads :
        Run(Driver("P4"), "P4.write_user_row", Args(address, data, 0),
            P4_write_user_row_code(address, data))

P4_write_eeprom ==
    \E address \in Addresses, data \in Payloads :
        Run(Driver("P4"), "P4.write_eeprom", Args(address, data, 0),
            P4_write_eeprom_code(address, data))

P4_write_fuse ==
    \E address \in FuseAddresses, data \in Payloads :
        Run(Driver("P4"), "P4.write_fuse", Args(address, data, 0),
            P4_write_fuse_code(address, data))

P5_chip_erase ==
    Run(Driver("P5"), "P5.chip_erase", NoArgs, P5_chip_erase_code)

P5_erase_flash_page ==
    \E address \in Addresses :
        Run(Driver("P5"), "P5.erase_flash_page", Args(address, <<>>, 0),
            P5_erase_flash_page_code(address))

P5_erase_eeprom ==
    Run(Driver("P5"), "P5.erase_eeprom", NoArgs, P5_erase_eeprom_code)

P5_erase_user_row ==
    \E address \in Addresses, size \in Sizes :
        Run(Driver("P5"), "P5.erase_user_row", Args(address, <<>>, size),
            P5_erase_user_row_code(address, size))

P5_write_flash ==
    \E address \in Addresses, data \in Payloads :
        Run(Driver("P5"), "P5.write_flash", Args(address, data, 0),
            P5_write_flash_code(address, data))

P5_write_user_row ==
    \E address \in Addresses, data \in Payloads :
        Run(Driver("P5"), "P5.write_user_row", Args(address, data, 0),
            P5_write_user_row_code(address, data))

P5_write_eeprom ==
    \E address \in Addresses, data \in Payloads :
        Run(Driver("P5"), "P5.write_eeprom", Args(address, data, 0),
            P5_write_eeprom_code(address, data))

P5_write_fuse ==
    \E address \in FuseAddresses, data \in Payloads :
        Run(Driver("P5"), "P5.write_fuse", Args(address, data, 0),
            P5_write_fuse_code(address, data))

P0_chip_erase ==
    Run(Driver("P0"), "P0.chip_erase", NoArgs, P0_chip_erase_code)

P0_erase_flash_page ==
    \E address \in Addresses :
        Run(Driver("P0"), "P0.erase_flash_page", Args(address, <<>>, 0),
            P0_erase_flash_page_code(address))

P0_erase_eeprom ==
    Run(Driver("P0"), "P0.erase_eeprom", NoArgs, P0_erase_eeprom_code)

P0_erase_user_row ==
    \E address \in Addresses, size \in Sizes :
        Run(Driver("P0"), "P0.erase_user_row", Args(address, <<>>, size),
            P0_erase_user_row_code(address, size))

P0_write_flash ==
    \E address \in Addresses, data \in Payloads :
        Run(Driver("P0"), "P0.write_flash", Args(address, data, 0),
            P0_write_flash_code(address, data))

P0_write_user_row ==
    \E address \in Addresses, data \in Payloads :
        Run(Driver("P0"), "P0.write_user_row", Args(address, data, 0),
            P0_write_user_row_code(address, data))

P0_write_eeprom ==
    \E address \in Addresses, data \in Payloads :
        Run(Driver("P0"), "P0.write_eeprom", Args(address, data, 0),
            P0_write_eeprom_code(address, data))

P0_write_fuse ==
    \E address \in FuseAddresses, data \in Payloads :
        Run(Driver("P0"), "P0.write_fuse", Args(address, data, 0),
            P0_write_fuse_code(address, data))

\* wait_nvm_ready called on the active driver with its default timeout.
WaitNvmReady ==
    \E variant \in {"P0", "P4", "P5"} :
        Run(Driver(variant), "wait_nvm_ready", NoArgs,
            << Stmt("wait_return", variant, WAIT_NVM_READY_TIMEOUT_MS, 0) >>)

----------------------------------------------------------------------------
(* The drivers' specification: a session whose read_device_info has         *)
(* installed the P:0, P:4 or P:5 driver, followed by any sequence of driver *)
(* methods.                                                                 *)

Idle == [NewCall("none", NoArgs, AppInit) EXCEPT !.pc = 0, !.out = "none"]

NvmInit ==
    /\ app \in {SelectDriver(AppInit, c) : c \in {Str0, Str4, Str5}}
    /\ call = Idle
    /\ wire = <<>>
    /\ ctrla = 0

NvmNext ==
    \/ P4_chip_erase \/ P4_erase_flash_page \/ P4_erase_eeprom \/ P4_erase_user_row
    \/ P4_write_flash \/ P4_write_user_row \/ P4_write_eeprom \/ P4_write_fuse
    \/ P5_chip_erase \/ P5_erase_flash_page \/ P5_erase_eeprom \/ P5_erase_user_row
    \/ P5_write_flash \/ P5_write_user_row \/ P5_write_eeprom \/ P5_write_fuse
    \/ P0_chip_erase \/ P0_erase_flash_page \/ P0_erase_eeprom \/ P0_erase_user_row
    \/ P0_write_flash \/ P0_write_user_row \/ P0_write_eeprom \/ P0_write_fuse

SpecNvm == NvmInit /\ [][NvmNext]_vars

(* The ready-wait on its own, for every value the STATUS register can hold. *)

WaitNext == WaitNvmReady

SpecWait == NvmInit /\ [][WaitNext]_vars

----------------------------------------------------------------------------
(* serialupdi/application.py *)

sigrow_address == 4352
device_id == 2003751
syscfg_address == 3840

reset(apply_reset) ==
    Stmt("write_cs", UPDI_ASI_RESET_REQ, IF apply_reset THEN UPDI_RESET_REQ_VALUE ELSE 0, 0)

read_device_info_code ==
    << Stmt("read_sib", 0, 0, 0),
       Stmt("jump_unless_sib_none", 6, 0, 0),
       Stmt("double_break", 0, 0, 0),
       Stmt("read_sib", 0, 0, 0),
       Stmt("raise_if_sib_none", "SerialUpdiError", 0, 0),
       Stmt("select_driver", 0, 0, 0),
       Stmt("read_cs", UPDI_CS_STATUSA, 0, 0),
       Stmt("jump_unless_in_prog_mode", 11, 0, 0),
       Stmt("read_data", sigrow_address, 3, 0),
       Stmt("read_data", syscfg_address + 1, 1, 0),
       Stmt("return", "sib_info", 0, 0) >>

\* Variant of enter_progmode that releases the reset it applied before the key.
enter_progmode_code_single_apply ==
    << Stmt("in_prog_mode_return", "True", 0, 0),
       reset(TRUE),
       Stmt("write_key", UPDI_KEY_64, UPDI_KEY_NVM, 0),
       Stmt("key_status_or_raise", UPDI_ASI_KEY_STATUS_NVMPROG, "SerialUpdiError", 0),
       reset(FALSE),
       Stmt("wait_unlocked_or_raise", 100, "Locked", 0),
       Stmt("in_prog_mode_or_raise", "SerialUpdiError", 0, 0),
       Stmt("return", "True", 0, 0) >>

\* Variant of enter_progmode that toggles reset before it looks at the key status.
enter_progmode_code_toggle_before_check ==
    << Stmt("in_prog_mode_return", "True", 0, 0),
       reset(TRUE),
       Stmt("write_key", UPDI_KEY_64, UPDI_KEY_NVM, 0),
       reset(TRUE),
       reset(FALSE),
       Stmt("key_status_or_raise", UPDI_ASI_KEY_STATUS_NVMPROG, "SerialUpdiError", 0),
       Stmt("wait_unlocked_or_raise", 100, "Locked", 0),
       Stmt("in_prog_mode_or_raise", "SerialUpdiError", 0, 0),
       Stmt("return", "True", 0, 0) >>

enter_progmode_code ==
    << Stmt("in_prog_mode_return", "True", 0, 0),
       reset(TRUE),
       Stmt("write_key", UPDI_KEY_64, UPDI_KEY_NVM, 0),
       Stmt("key_status_or_raise", UPDI_ASI_KEY_STATUS_NVMPROG, "SerialUpdiError", 0),
       reset(TRUE),
       reset(FALSE),
       Stmt("wait_unlocked_or_raise", 100, "Locked", 0),
       Stmt("in_prog_mode_or_raise", "SerialUpdiError", 0, 0),
       Stmt("return", "True", 0, 0) >>

\* Variant of unlock that toggles reset before it looks at the key status.
unlock_code_reset_before_check ==
    << Stmt("write_key", UPDI_KEY_64, UPDI_KEY_CHIPERASE, 0),
       reset(TRUE),
       reset(FALSE),
       Stmt("key_status_or_raise", UPDI_ASI_KEY_STATUS_CHIPERASE, "SerialUpdiError", 0),
       Stmt("wait_unlocked_or_raise", 500, "SerialUpdiError", 0) >>

unlock_code ==
    << Stmt("write_key", UPDI_KEY_64, UPDI_KEY_CHIPERASE, 0),
       Stmt("key_status_or_raise", UPDI_ASI_KEY_STATUS_CHIPERASE, "SerialUpdiError", 0),
       reset(TRUE),
       reset(FALSE),
       Stmt("wait_unlocked_or_raise", 500, "SerialUpdiError", 0) >>

\* Variant of write_user_row_locked_device that finalises before the payload.
write_user_row_locked_device_code_final_first(address, data) ==
    << Stmt("write_key", UPDI_KEY_64, UPDI_KEY_UROW, 0),
       Stmt("key_status_or_raise", UPDI_ASI_KEY_STATUS_UROWWRITE, "SerialUpdiError", 0),
       reset(TRUE),
       reset(FALSE),
       Stmt("wait_urow_prog", 500, TRUE, 7),
       Stmt("raise", "SerialUpdiError", 0, 0),
       Stmt("write_cs", UPDI_ASI_SYS_CTRLA,
            BitOr(ShiftLeft(1, UPDI_ASI_SYS_CTRLA_UROW_FINAL), ShiftLeft(1, UPDI_CTRLB_CCDETDIS_BIT)), 0),
       Stmt("write_data", address, data, 0),
       Stmt("wait_urow_prog", 500, FALSE, 13),
       reset(TRUE),
       reset(FALSE),
       Stmt("raise", "SerialUpdiError", 0, 0),
       Stmt("write_cs", UPDI_ASI_KEY_STATUS,
            BitOr(ShiftLeft(1, UPDI_ASI_KEY_STATUS_UROWWRITE), ShiftLeft(1, UPDI_CTRLB_CCDETDIS_BIT)), 0),
       reset(TRUE),
       reset(FALSE) >>

write_user_row_locked_device_code(address, data) ==
    << Stmt("write_key", UPDI_KEY_64, UPDI_KEY_UROW, 0),
       Stmt("key_status_or_raise", UPDI_ASI_KEY_STATUS_UROWWRITE, "SerialUpdiError", 0),
       reset(TRUE),
       reset(FALSE),
       Stmt("wait_urow_prog", 500, TRUE, 7),
       Stmt("raise", "SerialUpdiError", 0, 0),
       Stmt("write_data", address, data, 0),
       Stmt("write_cs", UPDI_ASI_SYS_CTRLA,
            BitOr(ShiftLeft(1, UPDI_ASI_SYS_CTRLA_UROW_FINAL), ShiftLeft(1, UPDI_CTRLB_CCDETDIS_BIT)), 0),
       Stmt("wait_urow_prog", 500, FALSE, 13),
       reset(TRUE),
       reset(FALSE),
       Stmt("raise", "SerialUpdiError", 0, 0),
       Stmt("write_cs", UPDI_ASI_KEY_STATUS,
            BitOr(ShiftLeft(1, UPDI_ASI_KEY_STATUS_UROWWRITE), ShiftLeft(1, UPDI_CTRLB_CCDETDIS_BIT)), 0),
       reset(TRUE),
       reset(FALSE) >>

\* Variant of leave_progmode that sets UPDIDIS only.
leave_progmode_code_updidis_only ==
    << reset(TRUE),
       reset(FALSE),
       Stmt("write_cs", UPDI_CS_CTRLB, ShiftLeft(1, UPDI_CTRLB_UPDIDIS_BIT), 0) >>

leave_progmode_code ==
    << reset(TRUE),
       reset(FALSE),
       Stmt("write_cs", UPDI_CS_CTRLB,
            BitOr(ShiftLeft(1, UPDI_CTRLB_UPDIDIS_BIT), ShiftLeft(1, UPDI_CTRLB_CCDETDIS_BIT)), 0) >>

\* The parameters of a call made while the link to the target may fail.
LinkArgs(faults) == [address |-> 0, data |-> <<>>, size |-> 0, link_faults |-> faults]

\* A session follows at most MaxRebuilds replacements of the datalink.
read_device_info ==
    Run(app.built <= MaxRebuilds, "read_device_info", NoArgs, read_device_info_code)

enter_progmode ==
    Run(TRUE, "enter_progmode", NoArgs, enter_progmode_code)

unlock ==
    Run(TRUE, "unlock", NoArgs, unlock_code)

write_user_row_locked_device ==
    \E address \in Addresses, data \in Payloads :
        Run(TRUE, "write_user_row_locked_device", Args(address, data, 0),
            write_user_row_locked_device_code(address, data))

leave_progmode ==
    \E faults \in BOOLEAN :
        Run(TRUE, "leave_progmode", LinkArgs(faults), leave_progmode_code)

----------------------------------------------------------------------------
(* The application layer's specification: the object after __init__,       *)
(* followed by any sequence of its methods.                                 *)

Init ==
    /\ app = AppInit
    /\ call = Idle
    /\ wire = <<>>
    /\ ctrla = 0

Next ==
    \/ read_device_info
    \/ enter_progmode
    \/ unlock
    \/ write_user_row_locked_device
    \/ leave_progmode

Spec == Init /\ [][Next]_vars

----------------------------------------------------------------------------
(* serialupdi/nvm.py: the base driver NvmUpdi, active until read_device_info *)
(* has installed another                                                     *)

\* raise NotImplementedError("NVM stack not ready")
NvmUpdi_code == << Stmt("raise", "NotImplementedError", 0, 0) >>

NvmUpdi_chip_erase ==
    Run(Driver("NvmUpdi"), "NvmUpdi.chip_erase", NoArgs, NvmUpdi_code)

NvmUpdi_erase_flash_page ==
    \E address \in Addresses :
        Run(Driver("NvmUpdi"), "NvmUpdi.erase_flash_page", Args(address, <<>>, 0), NvmUpdi_code)

NvmUpdi_erase_eeprom ==
    Run(Driver("NvmUpdi"), "NvmUpdi.erase_eeprom", NoArgs, NvmUpdi_code)

NvmUpdi_erase_user_row ==
    \E address \in Addresses, size \in Sizes :
        Run(Driver("NvmUpdi"), "NvmUpdi.erase_user_row", Args(address, <<>>, size), NvmUpdi_code)

NvmUpdi_write_flash ==
    \E address \in Addresses, data \in Payloads :
        Run(Driver("NvmUpdi"), "NvmUpdi.write_flash", Args(address, data, 0), NvmUpdi_code)

NvmUpdi_write_user_row ==
    \E address \in Addresses, data \in Payloads :
        Run(Driver("NvmUpdi"), "NvmUpdi.write_user_row", Args(address, data, 0), NvmUpdi_code)

NvmUpdi_write_eeprom ==
    \E address \in Addresses, data \in Payloads :
        Run(Driver("NvmUpdi"), "NvmUpdi.write_eeprom", Args(address, data, 0), NvmUpdi_code)

NvmUpdi_write_fuse ==
    \E address \in FuseAddresses, data \in Payloads :
        Run(Driver("NvmUpdi"), "NvmUpdi.write_fuse", Args(address, data, 0), NvmUpdi_code)

\* A session in which read_device_info and the operations of the base driver
\* are called in any order.
BaseNext ==
    \/ read_device_info
    \/ NvmUpdi_chip_erase \/ NvmUpdi_erase_flash_page
    \/ NvmUpdi_erase_eeprom \/ NvmUpdi_erase_user_row
    \/ NvmUpdi_write_flash \/ NvmUpdi_write_user_row
    \/ NvmUpdi_write_eeprom \/ NvmUpdi_write_fuse

SpecBase == Init /\ [][BaseNext]_vars

----------------------------------------------------------------------------
(* serialupdi/readwrite.py: the data transfers, as calls of the datalink *)

Datalink(op, a, d) == Stmt("datalink", op, a, d)

\* Variant of read_data without the range check.
UpdiReadWrite_read_data_unchecked(address, size) ==
    << Datalink("st_ptr", address, <<>>) >>
    \o (IF size > 1 THEN << Datalink("repeat", size, <<>>) >> ELSE <<>>)
    \o << Datalink("ld_ptr_inc", size, <<>>), Stmt("return", "data", 0, 0) >>

UpdiReadWrite_read_data(address, size) ==
    IF size > UPDI_MAX_REPEAT_SIZE THEN << Stmt("raise", "ProtocolError", 0, 0) >>
    ELSE << Datalink("st_ptr", address, <<>>) >>
         \o (IF size > 1 THEN << Datalink("repeat", size, <<>>) >> ELSE <<>>)
         \o << Datalink("ld_ptr_inc", size, <<>>), Stmt("return", "data", 0, 0) >>

UpdiReadWrite_read_data_words(address, words) ==
    IF words > ShiftRight(UPDI_MAX_REPEAT_SIZE, 1) THEN << Stmt("raise", "ProtocolError", 0, 0) >>
    ELSE << Datalink("st_ptr", address, <<>>) >>
         \o (IF words > 1 THEN << Datalink("repeat", words, <<>>) >> ELSE <<>>)
         \o << Datalink("ld_ptr_inc16", words, <<>>), Stmt("return", "data", 0, 0) >>

\* Variant of write_data_words that announces the number of bytes.
UpdiReadWrite_write_data_words_repeat_bytes(address, data) ==
    IF Len(data) = 2
    THEN << Datalink("st16", address, <<data[1] + ShiftLeft(data[2], 8)>>) >>
    ELSE IF Len(data) > ShiftLeft(UPDI_MAX_REPEAT_SIZE, 1)
    THEN << Stmt("raise", "ProtocolError", 0, 0) >>
    ELSE << Datalink("st_ptr", address, <<>>),
            Datalink("repeat", Len(data), <<>>),
            Datalink("st_ptr_inc16", 0, data) >>

UpdiReadWrite_write_data_words(address, data) ==
    IF Len(data) = 2
    THEN << Datalink("st16", address, <<data[1] + ShiftLeft(data[2], 8)>>) >>
    ELSE IF Len(data) > ShiftLeft(UPDI_MAX_REPEAT_SIZE, 1)
    THEN << Stmt("raise", "ProtocolError", 0, 0) >>
    ELSE << Datalink("st_ptr", address, <<>>),
            Datalink("repeat", ShiftRight(Len(data), 1), <<>>),
            Datalink("st_ptr_inc16", 0, data) >>

\* Variant of the loop of write_data that never advances index.
RECURSIVE UpdiReadWrite_write_data_loop_index_kept(_, _, _, _)
UpdiReadWrite_write_data_loop_index_kept(address, data, index, numbytes) ==
    IF numbytes = 0 THEN <<>>
    ELSE LET chunk_size == IF numbytes > UPDI_MAX_REPEAT_SIZE
                           THEN UPDI_MAX_REPEAT_SIZE ELSE numbytes
         IN  << Datalink("st_ptr", address, <<>>),
                Datalink("repeat", chunk_size, <<>>),
                Datalink("st_ptr_inc", 0, Slice(data, index, index + chunk_size)) >>
             \o UpdiReadWrite_write_data_loop_index_kept(address + chunk_size, data, index,
                                                         numbytes - chunk_size)

\* The loop of write_data, from its state (address, index, numbytes).
RECURSIVE UpdiReadWrite_write_data_loop(_, _, _, _)
UpdiReadWrite_write_data_loop(address, data, index, numbytes) ==
    IF numbytes = 0 THEN <<>>
    ELSE LET chunk_size == IF numbytes > UPDI_MAX_REPEAT_SIZE
                           THEN UPDI_MAX_REPEAT_SIZE ELSE numbytes
         IN  << Datalink("st_ptr", address, <<>>),
                Datalink("repeat", chunk_size, <<>>),
                Datalink("st_ptr_inc", 0, Slice(data, index, index + chunk_size)) >>
             \o UpdiReadWrite_write_data_loop(address + chunk_size, data, index + chunk_size,
                                              numbytes - chunk_size)

\* Variant of write_data without the short cuts for one and two bytes.
UpdiReadWrite_write_data_always_chunked(address, data) ==
    UpdiReadWrite_write_data_loop(address, data, 0, Len(data))

UpdiReadWrite_write_data(address, data) ==
    IF Len(data) = 1 THEN << Datalink("st", address, <<data[1]>>) >>
    ELSE IF Len(data) = 2
    THEN << Datalink("st", address, <<data[1]>>), Datalink("st", address + 1, <<data[2]>>) >>
    ELSE UpdiReadWrite_write_data_loop(address, data, 0, Len(data))

----------------------------------------------------------------------------
(* serialupdi/application.py: the data transfers of UpdiApplication *)

\* A method that may call itself: `frames` counts the frames on the stack.
RunRecursive(enabled, name, args, code) ==
    IF call.pc = 0
    THEN /\ enabled
         /\ call' = NewCall(name, args, app) @@ [frames |-> 1]
         /\ wire' = <<>>
         /\ UNCHANGED <<app, ctrla>>
    ELSE /\ enabled
         /\ call.op = name
         /\ call.args = args
         /\ \E inp \in Inputs(State, code[call.pc]) :
                Become(Finish(Exec(State, code[call.pc], inp), Len(code)))

\* Lengths of the transfers, in units, around the limits of the layer.
TransferSizes == {0, 1, 2, 3, 4, 128, 129, 256, 257, 512, 513, 514}

\* Payload bytes that do not repeat with the period of the chunks.
DataOf(n) == [i \in 1 .. n |-> i % 251]

read_data_code(address, size) ==
    << Stmt("read_data", address, size, 0) >> \o UpdiReadWrite_read_data(address, size)

read_data_words_code(address, words) ==
    << Stmt("read_data_words", address, words, 0) >>
    \o UpdiReadWrite_read_data_words(address, words)

write_data_words_code(address, data) ==
    << Stmt("write_data_words", address, data, 0) >>
    \o UpdiReadWrite_write_data_words(address, data)

\* return self.write_data(address, data)
write_data_code(address, data) ==
    << Stmt("call_self", address, data, 0) >>

read_data ==
    \E address \in Addresses, size \in TransferSizes :
        Run(TRUE, "read_data", Args(address, <<>>, size), read_data_code(address, size))

read_data_words ==
    \E address \in Addresses, words \in TransferSizes :
        Run(TRUE, "read_data_words", Args(address, <<>>, words),
            read_data_words_code(address, words))

write_data_words ==
    \E address \in Addresses, n \in TransferSizes :
        Run(TRUE, "write_data_words", Args(address, DataOf(n), n),
            write_data_words_code(address, DataOf(n)))

write_data ==
    \E address \in Addresses, n \in TransferSizes :
        RunRecursive(TRUE, "write_data", Args(address, DataOf(n), n),
                     write_data_code(address, DataOf(n)))

\* UpdiReadWrite.write_data as the drivers and write_user_row_locked_device
\* call it.
readwrite_write_data_code(address, data) ==
    << Stmt("write_data", address, data, 0) >> \o UpdiReadWrite_write_data(address, data)

readwrite_write_data ==
    \E address \in Addresses, n \in TransferSizes :
        Run(TRUE, "readwrite.write_data", Args(address, DataOf(n), n),
            readwrite_write_data_code(address, DataOf(n)))

TransferNext ==
    \/ read_data
    \/ read_data_words
    \/ write_data_words
    \/ write_data
    \/ readwrite_write_data

SpecTransfer == Init /\ [][TransferNext]_vars

\* The next statement of a call of UpdiReadWrite.write_data in progress.
readwrite_write_data_continue ==
    /\ call.pc # 0
    /\ call.op = "readwrite.write_data"
    /\ Run(TRUE, "readwrite.write_data", call.args,
           readwrite_write_data_code(call.args.address, call.args.data))

\* The transfers when the interpreter keeps executing a write_data in progress.
SpecTransferFair == SpecTransfer /\ WF_vars(readwrite_write_data_continue)

----------------------------------------------------------------------------
(* serialupdi/timeout.py and the polling loops, with the clock *)

\* Timeout.expired(): time.time() - self.start_time > self.timeout_ms / 1000.0,
\* with the times in milliseconds.
Timeout_expired(now, start_time, timeout_ms) == now - start_time > timeout_ms

\* The loops and the budgets their callers give them.
PollLoops ==
    {[name |-> "wait_nvm_ready", variant |-> v, timeout_ms |-> WAIT_NVM_READY_TIMEOUT_MS,
      wait_for_high |-> FALSE] : v \in {"P0", "P4", "P5"}}
    \cup {[name |-> "wait_unlocked", variant |-> "None", timeout_ms |-> t,
           wait_for_high |-> FALSE] : t \in {100, 500}}
    \cup {[name |-> "wait_urow_prog", variant |-> "None", timeout_ms |-> 500,
           wait_for_high |-> h] : h \in BOOLEAN}

\* The body of the loop for one status value read.
PollBody(loop, status) ==
    CASE loop.name = "wait_nvm_ready" -> wait_nvm_ready(loop.variant, FALSE, status)
      [] loop.name = "wait_unlocked" -> wait_unlocked(FALSE, status)
      [] loop.name = "wait_urow_prog" -> wait_urow_prog(FALSE, loop.wait_for_high, status)

PollSamples(loop) ==
    IF loop.name = "wait_nvm_ready" THEN StatusSamples ELSE CsSamples \cup UrowSamples

\* The time one status read takes.
ReadDurations == {MinReadMs, MinReadMs + 40}

\* timeout = Timeout(timeout_ms)
poll_start ==
    /\ call.pc = 0
    /\ \E loop \in PollLoops, t0 \in {0, 3} :
          call' = NewCall(loop.name, NoArgs, app)
                  @@ [loop |-> loop, start_time |-> t0, now |-> t0]
    /\ wire' = <<>>
    /\ UNCHANGED <<app, ctrla>>

\* while not timeout.expired(): <read the status and look at it>
poll_iteration ==
    /\ call.pc # 0
    /\ IF Timeout_expired(call.now, call.start_time, call.loop.timeout_ms)
       THEN Become(Return(Expired(State, call.loop.timeout_ms, TRUE), "False"))
       ELSE \E status \in PollSamples(call.loop), d \in ReadDurations :
               LET r == PollBody(call.loop, status)
                   t == [Received(Expired(State, call.loop.timeout_ms, FALSE), status)
                            EXCEPT !.call.now = @ + d]
               IN  Become(IF r.k = "loop" THEN t
                          ELSE IF r.k = "raise" THEN Raise(t, "NvmError", r.code)
                          ELSE Return(t, r.v))

PollNext ==
    \/ poll_start
    \/ poll_iteration

\* The clock advances and every status read returns.
SpecPoll == Init /\ [][PollNext]_vars /\ WF_vars(PollNext)

----------------------------------------------------------------------------
(* nvmserialupdi.py: NvmAccessProviderSerial *)

\* A method of the provider calls a method of the stack inside try/except:
\* statements lo..hi are the called method; an error that is an instance of
\* `catch` continues at `handler`, a return continues at `next`.
Region(lo, hi, catch, handler, next) ==
    [lo |-> lo, hi |-> hi, catch |-> catch, handler |-> handler, next |-> next]

\* The outcome of a statement of the called method as the provider's method
\* sees it; `caught` keeps the kind of the error that was handled.
Nested(t, pc0, r) ==
    IF pc0 < r.lo THEN t
    ELSE IF pc0 > r.hi THEN t
    ELSE IF t.call.pc = 0
    THEN IF t.call.out = "ok"
         THEN [t EXCEPT !.call.pc = r.next, !.call.out = "running", !.call.ret = "None"]
         ELSE IF IsInstance(t.call.out, r.catch)
         THEN [t EXCEPT !.call.pc = r.handler, !.call.out = "running",
                        !.call.caught = t.call.out]
         ELSE t
    ELSE IF t.call.pc > r.hi THEN Goto(t, r.next)
    ELSE t

RunNested(enabled, name, args, code, region) ==
    IF call.pc = 0
    THEN /\ enabled
         /\ call' = NewCall(name, args, app) @@ [caught |-> "None"]
         /\ wire' = <<>>
         /\ UNCHANGED <<app, ctrla>>
    ELSE /\ enabled
         /\ call.op = name
         /\ call.args = args
         /\ \E inp \in Inputs(State, code[call.pc]) :
                Become(Finish(Nested(Exec(State, code[call.pc], inp), call.pc, region),
                              Len(code)))

\* self.options: whether a key is in the options with a true value.
Options == [user_row_locked_device : BOOLEAN, chip_erase_locked_device : BOOLEAN]

\* Variant of start that looks at the chip erase option first.
start_code_chip_erase_first(options) ==
    enter_progmode_code
    \o (IF options.chip_erase_locked_device THEN unlock_code
        ELSE IF options.user_row_locked_device THEN <<Stmt("return", "None", 0, 0)>>
        ELSE <<Stmt("raise", "DeviceLocked", 0, 0)>>)

\* start: enter_progmode, then the handler of PymcuprogSerialUpdiLockedError.
start_code(options) ==
    enter_progmode_code
    \o (IF options.user_row_locked_device THEN <<Stmt("return", "None", 0, 0)>>
        ELSE IF options.chip_erase_locked_device THEN unlock_code
        ELSE <<Stmt("raise", "DeviceLocked", 0, 0)>>)

start_region(options) ==
    Region(1, Len(enter_progmode_code), "Locked", Len(enter_progmode_code) + 1,
           Len(start_code(options)) + 1)

start ==
    \E options \in Options :
        RunNested(TRUE, "start", [options |-> options], start_code(options),
                  start_region(options))

chip_erase_code(variant) ==
    IF variant = "P0" THEN P0_chip_erase_code
    ELSE IF variant = "P4" THEN P4_chip_erase_code
    ELSE P5_chip_erase_code

\* erase(memory_info=None): chip_erase of the driver, then the handler of
\* IOError.
erase_code(variant) ==
    chip_erase_code(variant) \o <<Stmt("return", "None", 0, 0)>> \o unlock_code

erase_region(variant) ==
    Region(1, Len(chip_erase_code(variant)), "IOError",
           Len(chip_erase_code(variant)) + 2, Len(chip_erase_code(variant)) + 1)

erase ==
    \E variant \in {"P0", "P4", "P5"} :
        RunNested(Driver(variant), "erase", NoArgs, erase_code(variant), erase_region(variant))

\* stop: self.avr is set by __init__, so leave_progmode is called.
stop ==
    \E faults \in BOOLEAN :
        Run(TRUE, "stop", LinkArgs(faults), leave_progmode_code)

\* Variant of read_device_id that returns whatever signature was read.
read_device_id_code_unchecked ==
    read_device_info_code
    \o << Stmt("read_signature", sigrow_address, 3, 0),
          Stmt("raise_unless_len", 3, "SessionError", 0),
          Stmt("read_data", syscfg_address + 1, 1, 0),
          Stmt("read_data", sigrow_address + 3, 10, 0),
          Stmt("return_swapped", 0, 0, 0) >>

\* read_device_id: read_device_info, then the signature and its check, the
\* revision and the serial number.
read_device_id_code ==
    read_device_info_code
    \o << Stmt("read_signature", sigrow_address, 3, 0),
          Stmt("raise_unless_len", 3, "SessionError", 0),
          Stmt("raise_unless_device_id", device_id, "SessionError", 0),
          Stmt("read_data", syscfg_address + 1, 1, 0),
          Stmt("read_data", sigrow_address + 3, 10, 0),
          Stmt("return_swapped", 0, 0, 0) >>

\* read_device_info is called outside any try: its errors leave
\* read_device_id, its return continues with the signature read.
read_device_id_region ==
    Region(1, Len(read_device_info_code), "Nothing", 0, Len(read_device_info_code) + 1)

read_device_id ==
    IF call.pc = 0
    THEN /\ app.built <= MaxRebuilds
         /\ call' = NewCall("read_device_id", NoArgs, app) @@ [caught |-> "None", sig |-> <<>>]
         /\ wire' = <<>>
         /\ UNCHANGED <<app, ctrla>>
    ELSE /\ call.op = "read_device_id"
         /\ \E inp \in Inputs(State, read_device_id_code[call.pc]) :
                Become(Finish(Nested(Exec(State, read_device_id_code[call.pc], inp),
                                     call.pc, read_device_id_region),
                              Len(read_device_id_code)))

\* Variant of hold_in_reset that applies reset.
hold_in_reset_code_applying_reset == << reset(TRUE) >>

\* hold_in_reset: return
hold_in_reset_code == << Stmt("return", "None", 0, 0) >>

hold_in_reset == Run(TRUE, "hold_in_reset", NoArgs, hold_in_reset_code)

\* release_from_reset: self.avr.leave_progmode()
release_from_reset_code == leave_progmode_code

release_from_reset ==
    \E faults \in BOOLEAN :
        Run(TRUE, "release_from_reset", LinkArgs(faults), release_from_reset_code)

IdentifyNext ==
    \/ read_device_id
    \/ hold_in_reset
    \/ release_from_reset

\* The provider after __init__: identification of the device and the reset
\* methods.
SpecIdentify == NvmInit /\ [][IdentifyNext]_vars

----------------------------------------------------------------------------
(* nvmserialupdi.py: write *)

\* The memories of the device as DeviceMemoryInfo describes them.
Memories ==
    {[name |-> "flash", address |-> 32768, page_size |-> 64],
     [name |-> "eeprom", address |-> 5120, page_size |-> 32],
     [name |-> "fuses", address |-> 4736, page_size |-> 1],
     [name |-> "lockbits", address |-> 4746, page_size |-> 1],
     [name |-> "user_row", address |-> 4864, page_size |-> 1],
     [name |-> "internal_sram", address |-> 15360, page_size |-> 1]}

\* What utils.pagealign returns: the aligned data, by its length, and the
\* aligned offset.
\* The lengths run from nothing to a little over two pages of the memory.
WriteLengths(page_size) ==
    {0, 1, 2, 3, page_size, page_size + 1, 2 * page_size, 2 * page_size + 2}
AlignedOffsets == {0, 64}

\* utils.pad_to_size(data, size, value): data filled up to size with value.
pad_to_size(data, size, value) ==
    IF Len(data) >= size THEN data
    ELSE data \o [i \in 1 .. size - Len(data) |-> value]

\* The driver operation the loop calls for a memory.
write_operation(memtype_string) ==
    IF memtype_string = "fuses" THEN "nvm.write_fuse"
    ELSE IF memtype_string = "lockbits" THEN "nvm.write_fuse"
    ELSE IF memtype_string = "eeprom" THEN "nvm.write_eeprom"
    ELSE IF memtype_string = "user_row" THEN "nvm.write_user_row"
    ELSE IF memtype_string = "boot_row" THEN "nvm.write_user_row"
    ELSE "nvm.write_flash"

\* Variant of the loop of write that never advances the offset.
RECURSIVE write_loop_offset_kept(_, _, _, _)
write_loop_offset_kept(memtype_string, offset_aligned, data_aligned, write_chunk_size) ==
    IF data_aligned = <<>> THEN <<>>
    ELSE LET size == IF Len(data_aligned) < write_chunk_size
                     THEN Len(data_aligned) ELSE write_chunk_size
         IN  << Stmt("call", write_operation(memtype_string), offset_aligned,
                     Slice(data_aligned, 0, size)) >>
             \o write_loop_offset_kept(memtype_string, offset_aligned,
                                       Slice(data_aligned, size, Len(data_aligned)), size)

\* The loop of write, from its state (offset_aligned, data_aligned,
\* write_chunk_size).
RECURSIVE write_loop(_, _, _, _)
write_loop(memtype_string, offset_aligned, data_aligned, write_chunk_size) ==
    IF data_aligned = <<>> THEN <<>>
    ELSE LET size == IF Len(data_aligned) < write_chunk_size
                     THEN Len(data_aligned) ELSE write_chunk_size
         IN  << Stmt("call", write_operation(memtype_string), offset_aligned,
                     Slice(data_aligned, 0, size)) >>
             \o write_loop(memtype_string, offset_aligned + size,
                           Slice(data_aligned, size, Len(data_aligned)), size)

write_code(memory_info, offset, data_aligned, locked_device_option) ==
    LET memtype_string == memory_info.name
        offset_aligned == offset + memory_info.address
        user_row_write_locked_device ==
            memtype_string = "user_row" /\ locked_device_option
        write_chunk_size ==
            IF memtype_string \in {"flash", "eeprom", "fuses", "lockbits"}
               \/ user_row_write_locked_device
            THEN memory_info.page_size
            ELSE Len(data_aligned)
    IN  << Stmt("pagealign", 0, 0, 0) >>
        \o (IF user_row_write_locked_device
            THEN << Stmt("call", "avr.write_user_row_locked_device", offset_aligned,
                         pad_to_size(data_aligned, memory_info.page_size, 255)),
                    Stmt("return", "None", 0, 0) >>
            ELSE write_loop(memtype_string, offset_aligned, data_aligned, write_chunk_size))

WriteArgs(memory_info, offset, data, option) ==
    [address |-> offset, data |-> data, size |-> memory_info.page_size,
     memory_info |-> memory_info, option |-> option]

write ==
    \E memory_info \in Memories, offset \in AlignedOffsets, option \in BOOLEAN :
      \E n \in WriteLengths(memory_info.page_size) :
        Run(TRUE, "write", WriteArgs(memory_info, offset, DataOf(n), option),
            write_code(memory_info, offset, DataOf(n), option))

\* The next statement of a write in progress.
write_continue ==
    /\ call.pc # 0
    /\ call.op = "write"
    /\ \E code \in {write_code(call.args.memory_info, call.args.address,
                               call.args.data, call.args.option)} :
           Run(TRUE, "write", call.args, code)

WriteNext == write

\* The provider after __init__, writing memories; a write in progress is
\* carried on.
SpecWrite == NvmInit /\ [][WriteNext]_vars /\ WF_vars(write_continue)

\* The provider after __init__, which has read the device info and so
\* installed the driver; then any sequence of its methods.
ProviderNext ==
    \/ start
    \/ erase
    \/ stop

SpecProvider == NvmInit /\ [][ProviderNext]_vars

----------------------------------------------------------------------------
(* Observations used by the properties *)

Finished == call.pc = 0 /\ call.out # "none"

\* The values written to NVMCTRL CTRLA by the current call, in order.
CtrlaWrites ==
    LET ws == SelectSeq(wire, LAMBDA e : e.w = "write_byte" /\ e.a = nvmctrl_address)
    IN  [i \in 1 .. Len(ws) |-> ws[i].d[1]]

CommandWritten == \E i \in 1 .. Len(CtrlaWrites) : CtrlaWrites[i] # 0

LastCtrlaWriteIsNocmd ==
    Len(CtrlaWrites) > 0 /\ CtrlaWrites[Len(CtrlaWrites)] = 0

\* The error field and the busy bits of a STATUS value, per register layout.
StatusBusy(variant, status) ==
    IF variant = "P0" THEN Bit(status, 0) = 1 \/ Bit(status, 1) = 1
    ELSE Bit(status, 0) = 1 \/ Bit(status, 1) = 1

StatusErrorField(variant, status) ==
    IF variant = "P0" THEN Bit(status, 2)
    ELSE Bit(status, 4) + 2 * Bit(status, 5) + 4 * Bit(status, 6)

P5WriteOps == {"P5.write_flash", "P5.write_user_row", "P5.write_eeprom", "P5.write_fuse"}

----------------------------------------------------------------------------
(* Properties of the ready-wait (SpecWait) *)

----------------------------------------------------------------------------
(* enter_progmode (C1 - C3) *)

ReadSysStatus == WireOp("read_cs", UPDI_ASI_SYS_STATUS, <<>>)
ApplyReset == WireOp("write_cs", UPDI_ASI_RESET_REQ, <<89>>)
ReleaseReset == WireOp("write_cs", UPDI_ASI_RESET_REQ, <<0>>)
NvmProgKey == WireOp("write_key", 0, <<78, 86, 77, 80, 114, 111, 103, 32>>)
ReadKeyStatus == WireOp("read_cs", UPDI_ASI_KEY_STATUS, <<>>)

Writes == {"write_cs", "write_key", "write_byte", "write_data", "write_data_words",
           "double_break"}

\* enter_progmode is running or has finished, and its first status read found
\* the target outside NVMPROG.
EnteringProgmode ==
    /\ call.op = "enter_progmode"
    /\ Len(call.rx) >= 1
    /\ Bit(call.rx[1], 3) = 0

\* The wire log is a prefix of: the entry status read, then `order`, then
\* status reads only.
FollowsOrder(order) ==
    \A i \in 2 .. Len(wire) :
        wire[i] = IF i - 1 <= Len(order) THEN order[i - 1] ELSE ReadSysStatus

Applications == Cardinality({i \in 1 .. Len(wire) : wire[i] = ApplyReset})
Releases == Cardinality({i \in 1 .. Len(wire) : wire[i] = ReleaseReset})

\* C1 (as claimed): outside NVMPROG, enter_progmode performs, in this order,
\* RESET_REQ = 0x59, the KEY transfer of "NVMProg " with size code 0, the read
\* of ASI_KEY_STATUS (bit 4 checked), RESET_REQ = 0x00, the LOCKSTATUS polls and
\* the NVMPROG check; reset is applied once and released once.
C1_ResetAppliedOnce ==
    EnteringProgmode =>
        /\ FollowsOrder(<<ApplyReset, NvmProgKey, ReadKeyStatus, ReleaseReset>>)
        /\ Applications <= 1
        /\ Releases <= 1

\* C1 (amended): outside NVMPROG, enter_progmode performs, in this order,
\* RESET_REQ = 0x59, the KEY transfer of "NVMProg " with size code 0, the read
\* of ASI_KEY_STATUS (nothing follows unless bit 4 is set), RESET_REQ = 0x59 a
\* second time, RESET_REQ = 0x00, the LOCKSTATUS polls (bounded by a 100 ms
\* timeout) and the NVMPROG check; a call that gets past the key status has
\* applied reset twice and released it once.
C1_ResetToggledAfterKey ==
    EnteringProgmode =>
        /\ FollowsOrder(<<ApplyReset, NvmProgKey, ReadKeyStatus, ApplyReset, ReleaseReset>>)
        /\ Len(wire) > 4 => Bit(call.rx[2], 4) = 1
        /\ Len(wire) > 6 => call.timeout_ms = 100
        /\ (Finished /\ Len(call.rx) > 2) => (Applications = 2 /\ Releases = 1)
        /\ (Finished /\ call.out = "ok") => (Len(wire) >= 8 /\ Bit(call.rx[Len(call.rx)], 3) = 1)

\* C1 witness: a complete entry with one LOCKSTATUS poll that found the device
\* locked and one that found it unlocked.
C1_Witness ==
    /\ EnteringProgmode /\ Finished /\ call.out = "ok"
    /\ call.rx = <<0, 16, 1, 0, 8>>
    /\ Len(wire) = 9

\* C2: when the first read of ASI_SYS_STATUS has NVMPROG (bit 3) set,
\* enter_progmode returns True after that single read; nothing is written and
\* the application object and the NVM command register are as they were.
C2_AlreadyInProgmode ==
    (/\ call.op = "enter_progmode"
     /\ Len(call.rx) >= 1
     /\ Bit(call.rx[1], 3) = 1) =>
        /\ Finished /\ call.out = "ok" /\ call.ret = "True"
        /\ wire = <<ReadSysStatus>>
        /\ \A i \in 1 .. Len(wire) : wire[i].w \notin Writes
        /\ app = call.entry
        /\ ctrla = 0

\* C2 witness: enter_progmode on a target in NVMPROG, called after a
\* read_device_info that rebuilt the stack for P:0.
C2_Witness ==
    /\ call.op = "enter_progmode" /\ Finished
    /\ call.rx = <<9>>
    /\ app.nvm.kind = "P0"

KeyAccepted == Len(call.rx) >= 2 /\ Bit(call.rx[2], 4) = 1

\* C3: a finished enter_progmode (not already in NVMPROG) failed with the
\* Locked kind exactly when the key was accepted, the wait expired and every
\* poll before that read LOCKSTATUS (bit 0) set; a rejected key, and a missing
\* NVMPROG bit after the unlock, give SerialUpdiError; success implies that the
\* last ASI_SYS_STATUS read had NVMPROG set.
C3_LockedExactlyWhenNeverUnlocked ==
    (EnteringProgmode /\ Finished) =>
        /\ call.out = "Locked" <=>
              /\ KeyAccepted
              /\ call.expired
              /\ \A i \in 3 .. Len(call.rx) : Bit(call.rx[i], 0) = 1
        /\ ~KeyAccepted => call.out = "SerialUpdiError"
        /\ (KeyAccepted /\ ~call.expired /\ Bit(call.rx[Len(call.rx)], 3) = 0)
              => call.out = "SerialUpdiError"
        /\ call.out = "ok" =>
              /\ wire[Len(wire)] = ReadSysStatus
              /\ Bit(call.rx[Len(call.rx)], 3) = 1

\* C3 witness: the key was accepted and both polls before the expiry of the
\* wait read LOCKSTATUS set.
C3_Witness ==
    /\ EnteringProgmode /\ Finished /\ call.out = "Locked"
    /\ call.rx = <<0, 24, 1, 9>>
    /\ call.timeout_ms = 100

----------------------------------------------------------------------------
(* read_device_info (C4, C5) *)

\* Non-ASCII content or fewer than 19 characters.
Undecodable(sib) == Len(sib) < 19 \/ \E i \in 1 .. Len(sib) : sib[i] > 127

DoubleBreaks == Cardinality({i \in 1 .. Len(wire) : wire[i].w = "double_break"})
SibReads == Cardinality({i \in 1 .. Len(wire) : wire[i].w = "read_sib"})

\* C4: in one read_device_info call the SIB is read at most twice; a double
\* break is sent once (between the two reads) if the first SIB is non-ASCII or
\* shorter than 19 characters, and never otherwise; if the second SIB does not
\* decode either, the call raises and the datalink, read/write layer and NVM
\* driver are the ones the call started with.
C4_DoubleBreakOnce ==
    (call.op = "read_device_info" /\ Len(call.sibs) >= 1) =>
        /\ SibReads = Len(call.sibs) /\ SibReads <= 2
        /\ DoubleBreaks <= 1
        /\ ~Undecodable(call.sibs[1]) => (DoubleBreaks = 0 /\ SibReads = 1)
        /\ (Undecodable(call.sibs[1]) /\ Len(wire) >= 2) =>
              wire[2] = WireOp("double_break", 0, <<>>)
        /\ (Undecodable(call.sibs[1]) /\ Finished) => (DoubleBreaks = 1 /\ SibReads = 2)
        /\ (Len(call.sibs) = 2 /\ Undecodable(call.sibs[2])) =>
              /\ IF Finished THEN call.out = "SerialUpdiError" ELSE call.pc = 5
              /\ Len(wire) = 3
              /\ app = call.entry

\* C4 witness: the first SIB was cut to 18 characters, the double break was
\* sent and the second SIB decoded.
C4_Witness ==
    /\ call.op = "read_device_info" /\ Finished /\ call.out = "ok"
    /\ Len(call.sibs) = 2
    /\ Len(call.sibs[1]) = 18
    /\ DoubleBreaks = 1

FreshSession ==
    [datalink  |-> [id |-> 1, bits |-> 24, initialised |-> TRUE],
     readwrite |-> [id |-> 1, datalink |-> 1],
     nvm       |-> [kind |-> "NvmUpdi", readwrite |-> 1],
     built     |-> 1]

\* The driver kinds for the NVM characters '2', '3', '4', '5'.
KindOf(c) == IF c = <<50>> THEN "P2" ELSE IF c = <<51>> THEN "P3"
             ELSE IF c = <<52>> THEN "P4" ELSE "P5"

\* C5: read_device_info in a fresh session (24-bit datalink, provisional
\* driver), once the driver is selected for the decoded NVM character c: for
\* '0' there is a new, initialised 16-bit datalink, a new read/write layer on
\* it and a P:0 driver on that read/write layer; for '2'..'5' the P:c driver is
\* on the existing read/write layer and the datalink is the 24-bit one.
C5_DriverForNvmCharacter ==
    (/\ call.op = "read_device_info"
     /\ call.entry = FreshSession
     /\ call.sib_info.k = "info"
     /\ call.pc = 0 \/ call.pc > 6) =>
        LET c == call.sib_info.NVM
        IN  /\ c = <<48>> =>
                  /\ app.datalink.bits = 16 /\ app.datalink.initialised
                  /\ app.datalink.id # call.entry.datalink.id
                  /\ app.readwrite.id # call.entry.readwrite.id
                  /\ app.readwrite.datalink = app.datalink.id
                  /\ app.nvm = [kind |-> "P0", readwrite |-> app.readwrite.id]
            /\ c \in {<<50>>, <<51>>, <<52>>, <<53>>} =>
                  /\ app.nvm = [kind |-> KindOf(c), readwrite |-> call.entry.readwrite.id]
                  /\ app.readwrite = call.entry.readwrite
                  /\ app.datalink = call.entry.datalink
                  /\ app.datalink.bits = 24

\* C5 witness: a fresh session whose SIB carried NVM character '0'.
C5_Witness ==
    /\ call.op = "read_device_info" /\ Finished /\ call.out = "ok"
    /\ call.entry = FreshSession
    /\ call.sib_info.NVM = <<48>>
    /\ app.nvm.kind = "P0" /\ app.datalink.bits = 16

\* A fresh session whose SIB carried NVM character '5'.
C5_WitnessP5 ==
    /\ call.op = "read_device_info" /\ Finished /\ call.out = "ok"
    /\ call.entry = FreshSession
    /\ call.sib_info.NVM = <<53>>
    /\ app.nvm.kind = "P5"

----------------------------------------------------------------------------
(* The NVM drivers (C6 - C10) *)

\* C6: wait_nvm_ready reports ready only when its most recent STATUS read had
\* both busy bits clear and no error bit set, and reports not-ready only after
\* its timeout was found expired.
C6_ReadyOnlyWhenIdle ==
    (Finished /\ call.op = "wait_nvm_ready" /\ call.out = "ok") =>
        /\ call.ret \in {"True", "False"}
        /\ call.ret = "True" =>
              /\ call.reads = 1
              /\ ~call.expired
              /\ ~StatusBusy(app.nvm.kind, call.rd)
              /\ StatusErrorField(app.nvm.kind, call.rd) = 0
        /\ call.ret = "False" => call.expired

\* C6 witness: P:4 reported ready on a second poll whose STATUS had stray bits
\* set next to clear busy and error bits.
C6_Witness ==
    /\ Finished /\ call.op = "wait_nvm_ready" /\ call.ret = "True"
    /\ app.nvm.kind = "P4" /\ call.rd = 140 /\ Len(wire) = 2

\* C10 (as claimed): the code carried by the NVM error equals the STATUS error
\* field (bits 6:4 on P:4 and P:5, the write-error bit on P:0), for every
\* STATUS value.
C10_CodeIsErrorField ==
    (Finished /\ call.op = "wait_nvm_ready" /\ call.out = "NvmError") =>
        /\ StatusErrorField(app.nvm.kind, call.rd) # 0
        /\ call.code = StatusErrorField(app.nvm.kind, call.rd)

----------------------------------------------------------------------------
(* Properties of the P:4 and P:5 command register (SpecNvm) *)

C8_ErrorClearsCommand ==
    (/\ Finished
     /\ app.nvm.kind \in {"P4", "P5"}
     /\ call.out = "NvmError"
     /\ CommandWritten) => LastCtrlaWriteIsNocmd

\* C9 (as claimed): when an operation fails with the NVM timeout kind after it
\* wrote a command, NOCMD was written after that command.
C9_TimeoutClearsCommand ==
    (/\ Finished
     /\ app.nvm.kind \in {"P4", "P5"}
     /\ call.out = "NvmTimeout"
     /\ CommandWritten) => LastCtrlaWriteIsNocmd

----------------------------------------------------------------------------
(* unlock, write_user_row_locked_device, leave_progmode (C13 - C17) *)

ChipEraseKey == WireOp("write_key", 0, <<78, 86, 77, 69, 114, 97, 115, 101>>)
UserRowKey == WireOp("write_key", 0, <<78, 86, 77, 85, 115, 38, 116, 101>>)
DisableUpdi == WireOp("write_cs", UPDI_CS_CTRLB, <<12>>)
FinalizeUserRow == WireOp("write_cs", UPDI_ASI_SYS_CTRLA, <<10>>)
ClearUserRowKey == WireOp("write_cs", UPDI_ASI_KEY_STATUS, <<40>>)

\* The wire log is a prefix of `order` followed by status reads only.
StartsWith(order) ==
    \A i \in 1 .. Len(wire) :
        wire[i] = IF i <= Len(order) THEN order[i] ELSE ReadSysStatus

\* The number of control/status reads among the first i wire operations: the
\* index in call.rx of the value that the read at position i returned.
ReadIndex(i) == Cardinality({j \in 1 .. i : wire[j].w = "read_cs"})

\* C13: unlock performs, in order, the KEY transfer of "NVMErase" with size
\* code 0, a read of ASI_KEY_STATUS, RESET_REQ = 0x59, RESET_REQ = 0x00 and
\* then LOCKSTATUS polls under a 500 ms timeout; with CHIPERASE (bit 3) clear in
\* the key status it raises after the read, with no RESET_REQ write; it returns
\* normally exactly when a poll read LOCKSTATUS clear before the wait expired,
\* and raises when the wait expires.
C13_UnlockOrder ==
    call.op = "unlock" =>
        /\ StartsWith(<<ChipEraseKey, ReadKeyStatus, ApplyReset, ReleaseReset>>)
        /\ (Len(call.rx) >= 1 /\ Bit(call.rx[1], 3) = 0) =>
              /\ Finished /\ call.out = "SerialUpdiError"
              /\ wire = <<ChipEraseKey, ReadKeyStatus>>
        /\ Len(wire) > 4 => call.timeout_ms = 500
        /\ (Finished /\ call.out = "ok") =>
              /\ Len(call.rx) >= 2 /\ Len(wire) = 3 + Len(call.rx)
              /\ Bit(call.rx[1], 3) = 1
              /\ Bit(call.rx[Len(call.rx)], 0) = 0
              /\ ~call.expired
        /\ (Finished /\ call.expired) => (call.out = "SerialUpdiError" /\ call.timeout_ms = 500)
        /\ \A i \in 2 .. Len(call.rx) - 1 : Bit(call.rx[i], 0) = 1

\* C13 witness: the key was accepted, the first poll found the device locked
\* and the second found it unlocked.
C13_Witness ==
    /\ call.op = "unlock" /\ Finished /\ call.out = "ok"
    /\ call.rx = <<8, 1, 0>>
    /\ Len(wire) = 6

\* C14: a write_user_row_locked_device that returned normally performed, in
\* order: the KEY transfer of "NVMUs&te", the read of ASI_KEY_STATUS (UROWWRITE,
\* bit 5, set), RESET_REQ = 0x59 and 0x00, polls of ASI_SYS_STATUS until UROWPROG
\* (bit 2) was set, the write of the payload to the address, ASI_SYS_CTRLA =
\* UROW_FINAL | CCDETDIS, polls until UROWPROG was clear, ASI_KEY_STATUS =
\* UROWWRITE | CCDETDIS, RESET_REQ = 0x59 and 0x00; both waits have a 500 ms
\* timeout.  In every state the payload write directly follows a poll that read
\* UROWPROG set, and UROW_FINAL directly follows the payload write.
C14_UserRowOrder ==
    call.op = "write_user_row_locked_device" =>
        LET payload == WireOp("write_data", call.args.address, call.args.data)
        IN  /\ \A i \in 1 .. Len(wire) :
                  /\ wire[i].w = "write_data" =>
                        /\ wire[i] = payload
                        /\ i > 1 /\ wire[i - 1] = ReadSysStatus
                        /\ Bit(call.rx[ReadIndex(i - 1)], 2) = 1
                  /\ wire[i] = FinalizeUserRow => (i > 1 /\ wire[i - 1] = payload)
            /\ Len(wire) > 4 => call.timeout_ms = 500
            /\ (Finished /\ call.out = "ok") =>
                  \E k1, k2 \in 1 .. MaxPolls :
                      /\ Len(call.rx) = 1 + k1 + k2
                      /\ Bit(call.rx[1], 5) = 1
                      /\ \A i \in 2 .. k1 : Bit(call.rx[i], 2) = 0
                      /\ Bit(call.rx[1 + k1], 2) = 1
                      /\ \A i \in 2 + k1 .. k1 + k2 : Bit(call.rx[i], 2) = 1
                      /\ Bit(call.rx[1 + k1 + k2], 2) = 0
                      /\ wire = <<UserRowKey, ReadKeyStatus, ApplyReset, ReleaseReset>>
                                \o [i \in 1 .. k1 |-> ReadSysStatus]
                                \o <<payload, FinalizeUserRow>>
                                \o [i \in 1 .. k2 |-> ReadSysStatus]
                                \o <<ClearUserRowKey, ApplyReset, ReleaseReset>>

\* C14 witness: a complete user row write in which each wait polled twice.
C14_Witness ==
    /\ call.op = "write_user_row_locked_device" /\ Finished /\ call.out = "ok"
    /\ call.rx = <<32, 1, 5, 4, 0>>
    /\ call.args.data = <<3, 4, 5, 6>>
    /\ Len(wire) = 13

\* C15 (as claimed): when write_user_row_locked_device fails (key not accepted,
\* UROWPROG not set or not cleared within 500 ms), the last two wire operations
\* before the error is raised are RESET_REQ = 0x59 and RESET_REQ = 0x00.
C15_ResetCycleOnFailure ==
    (/\ call.op = "write_user_row_locked_device"
     /\ Finished
     /\ call.out # "ok") =>
        /\ Len(wire) >= 3
        /\ wire[Len(wire) - 1] = ApplyReset
        /\ wire[Len(wire)] = ReleaseReset
        /\ wire[Len(wire) - 2].w = "read_cs" \/ call.expired

\* C16: leave_progmode writes RESET_REQ = 0x59, RESET_REQ = 0x00 and CTRLB =
\* 0x0C (UPDIDIS | CCDETDIS), in this order, and performs nothing else: no read
\* and no other write; a call that returns has made all three writes.
C16_LeaveProgmodeWrites ==
    call.op = "leave_progmode" =>
        /\ \A i \in 1 .. Len(wire) :
              wire[i] = <<ApplyReset, ReleaseReset, DisableUpdi>>[i]
        /\ Len(wire) <= 3
        /\ (Finished /\ call.out = "ok") => wire = <<ApplyReset, ReleaseReset, DisableUpdi>>
        /\ app = call.entry

\* C16 witness: leave_progmode returned on a link without faults.
C16_Witness ==
    /\ call.op = "leave_progmode" /\ Finished /\ call.out = "ok"
    /\ ~call.args.link_faults
    /\ Len(wire) = 3

\* C17 (as claimed): leave_progmode never ends with an error of one of its
\* writes, and its last operation is the CTRLB write that disables UPDI, also
\* when a reset write before it failed.
C17_LeaveProgmodeBestEffort ==
    (call.op = "leave_progmode" /\ Finished) =>
        /\ call.out = "ok"
        /\ wire[Len(wire)] = DisableUpdi

----------------------------------------------------------------------------
(* NvmAccessProviderSerial (C11, C12) *)

UnlockCalls == Cardinality({i \in 1 .. Len(wire) : wire[i] = ChipEraseKey})

\* C11 (as claimed): an erase() without memory_info whose chip_erase timed out
\* waiting for the NVM controller does not end with the timeout error: unlock()
\* has been invoked and the outcome of erase() is the outcome of unlock().
C11_EraseRecoversFromTimeout ==
    (call.op = "erase" /\ Finished) =>
        /\ call.out # "NvmTimeout"
        /\ call.expired => UnlockCalls = 1

\* C12: start() after enter_progmode raised the Locked error: with the
\* user-row-locked-device option it returns normally and unlock is not called;
\* otherwise with the chip-erase-locked-device option unlock is called exactly
\* once (and its outcome is the outcome of start); with neither option the
\* device-locked session error is raised.  When enter_progmode returned, unlock
\* is not called and start returns; any other error of enter_progmode is the
\* outcome of start, and unlock is not called.
C12_StartHandlesLocked ==
    (call.op = "start" /\ Finished) =>
        LET o == call.args.options
            locked == /\ Len(call.rx) >= 2
                      /\ Bit(call.rx[1], 3) = 0
                      /\ Bit(call.rx[2], 4) = 1
                      /\ Len(wire) >= 6
                      /\ call.caught = "Locked"
        IN  /\ call.caught \in {"None", "Locked"}
            /\ (locked /\ o.user_row_locked_device) =>
                  (call.out = "ok" /\ UnlockCalls = 0)
            /\ (locked /\ ~o.user_row_locked_device /\ o.chip_erase_locked_device) =>
                  (UnlockCalls = 1 /\ call.out \in {"ok", "SerialUpdiError"})
            /\ (locked /\ ~o.user_row_locked_device /\ ~o.chip_erase_locked_device) =>
                  (call.out = "DeviceLocked" /\ UnlockCalls = 0)
            /\ ~locked =>
                  /\ call.caught = "None"
                  /\ UnlockCalls = 0
                  /\ call.out \in {"ok", "SerialUpdiError"}
                  /\ call.out = "ok" => Bit(call.rx[Len(call.rx)], 3) = 1
                  /\ (Len(call.rx) = 2 /\ Bit(call.rx[2], 4) = 0) => call.out = "SerialUpdiError"

\* C12 witness: the device stayed locked, only the chip erase option was set,
\* and the unlock that followed succeeded.
C12_Witness ==
    /\ call.op = "start" /\ Finished /\ call.out = "ok"
    /\ call.caught = "Locked"
    /\ call.args.options = [user_row_locked_device |-> FALSE, chip_erase_locked_device |-> TRUE]
    /\ UnlockCalls = 1
    /\ Len(call.rx) >= 5

----------------------------------------------------------------------------
(* The data transfers *)

DelegatingTransfers == {"read_data", "read_data_words", "write_data_words", "write_data"}

\* The calls of the read/write layer made by the current call.
ReadWriteCalls ==
    SelectSeq(wire, LAMBDA e : e.w \in {"read_data", "read_data_words",
                                        "write_data_words", "write_data"})

\* The datalink operations of the current call.
DatalinkOps ==
    SelectSeq(wire, LAMBDA e : e.w \in {"st_ptr", "repeat", "ld_ptr_inc", "ld_ptr_inc16",
                                        "st", "st16", "st_ptr_inc", "st_ptr_inc16"})

\* C19: each of UpdiApplication.write_data, write_data_words, read_data and
\* read_data_words terminates without exhausting the stack, having made
\* exactly one call of the read/write-layer method of the same name, at the
\* address it was given.
C19_TransfersDelegateOnce ==
    (Finished /\ call.op \in DelegatingTransfers) =>
        /\ call.out # "RecursionError"
        /\ Len(ReadWriteCalls) = 1
        /\ ReadWriteCalls[1].w = call.op
        /\ ReadWriteCalls[1].a = call.args.address

Rejected == Finished /\ call.out = "ProtocolError" /\ DatalinkOps = <<>>

\* The datalink operations are bursts of three: a pointer-set at the address
\* reached so far, a REPEAT of at most `limit` units and the burst itself.
ChunkCount == Len(DatalinkOps) \div 3

InChunks(limit, burst) ==
    /\ Len(DatalinkOps) = 3 * ChunkCount
    /\ \A k \in 1 .. ChunkCount :
          /\ DatalinkOps[3 * k - 2].w = "st_ptr"
          /\ DatalinkOps[3 * k - 2].a = call.args.address + limit * (k - 1)
          /\ DatalinkOps[3 * k - 1].w = "repeat"
          /\ DatalinkOps[3 * k - 1].a = Min(limit, call.args.size - limit * (k - 1))
          /\ DatalinkOps[3 * k - 1].a > 0
          /\ DatalinkOps[3 * k].w = burst
    /\ limit * ChunkCount >= call.args.size
    /\ limit * (ChunkCount - 1) < call.args.size

\* C20 as stated: every one of the four transfers accepts any length, and
\* carries out more than 256 units as chunks of at most 256 units, each with
\* its own pointer-set and REPEAT.
C20_LongTransfersChunked ==
    (Finished /\ call.op \in {"read_data", "read_data_words", "write_data_words",
                              "readwrite.write_data"}) =>
        /\ ~Rejected
        /\ call.args.size > 256 =>
              InChunks(256, CASE call.op = "read_data" -> "ld_ptr_inc"
                              [] call.op = "read_data_words" -> "ld_ptr_inc16"
                              [] call.op = "write_data_words" -> "st_ptr_inc16"
                              [] OTHER -> "st_ptr_inc")

\* C20, amended: read_data carries out up to 256 bytes, read_data_words up to
\* 128 words and write_data_words up to 512 bytes as one burst with one
\* pointer-set and at most one REPEAT, and each rejects a longer transfer with
\* a protocol error before anything is sent; write_data alone rejects nothing
\* and carries out more than two bytes as consecutive chunks of at most 256
\* bytes, each with its own pointer-set and REPEAT.
C20_BurstLimits ==
    Finished =>
        /\ call.op = "read_data" =>
              /\ Rejected <=> call.args.size > 256
              /\ ~Rejected => /\ call.out = "ok"
                              /\ Len(DatalinkOps) = IF call.args.size > 1 THEN 3 ELSE 2
                              /\ DatalinkOps[1] = WireOp("st_ptr", call.args.address, <<>>)
                              /\ DatalinkOps[Len(DatalinkOps)].w = "ld_ptr_inc"
                              /\ DatalinkOps[Len(DatalinkOps)].a = call.args.size
        /\ call.op = "read_data_words" =>
              /\ Rejected <=> call.args.size > 128
              /\ ~Rejected => /\ call.out = "ok"
                              /\ Len(DatalinkOps) = IF call.args.size > 1 THEN 3 ELSE 2
                              /\ DatalinkOps[1] = WireOp("st_ptr", call.args.address, <<>>)
                              /\ DatalinkOps[Len(DatalinkOps)].w = "ld_ptr_inc16"
                              /\ DatalinkOps[Len(DatalinkOps)].a = call.args.size
        /\ call.op = "write_data_words" =>
              /\ Rejected <=> call.args.size > 512
              /\ ~Rejected => /\ call.out = "ok"
                              /\ IF call.args.size = 2
                                 THEN Len(DatalinkOps) = 1 /\ DatalinkOps[1].w = "st16"
                                 ELSE /\ Len(DatalinkOps) = 3
                                      /\ DatalinkOps[1] = WireOp("st_ptr", call.args.address, <<>>)
                                      /\ DatalinkOps[2] = WireOp("repeat", call.args.size \div 2, <<>>)
                                      /\ DatalinkOps[3] = WireOp("st_ptr_inc16", 0, call.args.data)
        /\ call.op = "readwrite.write_data" =>
              /\ call.out = "ok"
              /\ call.args.size \in {1, 2} =>
                    /\ Len(DatalinkOps) = call.args.size
                    /\ \A i \in 1 .. call.args.size :
                          DatalinkOps[i] = WireOp("st", call.args.address + i - 1,
                                                  <<call.args.data[i]>>)
              /\ call.args.size \notin {1, 2} =>
                    /\ InChunks(256, "st_ptr_inc")
                    /\ \A k \in 1 .. ChunkCount :
                          DatalinkOps[3 * k].d =
                              Slice(call.args.data, 256 * (k - 1), 256 * k)

\* A write of 514 bytes went out as three chunks, the last of two bytes.
C20_Witness ==
    /\ Finished
    /\ call.op = "readwrite.write_data"
    /\ call.args.size = 514
    /\ ChunkCount = 3
    /\ DatalinkOps[8] = WireOp("repeat", 2, <<>>)

----------------------------------------------------------------------------
(* REPEAT and the short transfers *)

ReadWriteTransfers == {"read_data", "read_data_words", "write_data_words",
                       "readwrite.write_data"}

Bursts == {"ld_ptr_inc", "ld_ptr_inc16", "st_ptr_inc", "st_ptr_inc16"}

\* The number of data units a pointer-increment LD or ST transfers, in units
\* of its own width; -1 when the bytes do not make up whole units.
UnitsOf(e) ==
    CASE e.w \in {"ld_ptr_inc", "ld_ptr_inc16"} -> e.a
      [] e.w = "st_ptr_inc" -> Len(e.d)
      [] e.w = "st_ptr_inc16" -> IF Len(e.d) % 2 = 0 THEN Len(e.d) \div 2 ELSE -1
      [] OTHER -> -1

\* The payload is not empty, and a word write has an even number of bytes.
ProperPayload ==
    /\ call.args.size > 0
    /\ call.op = "write_data_words" => call.args.size % 2 = 0

\* C21: in a transfer of the read/write layer with a proper payload, every
\* REPEAT announces a count between 1 and 256 and is directly followed by one
\* pointer-increment LD or ST of exactly that many units, after which no
\* second LD or ST follows.
C21_RepeatThenOneBurst ==
    (call.op \in ReadWriteTransfers /\ ProperPayload) =>
        \A i \in 1 .. Len(DatalinkOps) :
            DatalinkOps[i].w = "repeat" =>
                /\ DatalinkOps[i].a \in 1 .. 256
                /\ i < Len(DatalinkOps) =>
                      /\ DatalinkOps[i + 1].w \in Bursts
                      /\ UnitsOf(DatalinkOps[i + 1]) = DatalinkOps[i].a
                /\ i + 1 < Len(DatalinkOps) => DatalinkOps[i + 2].w = "st_ptr"
                /\ (Finished /\ call.out = "ok") => i < Len(DatalinkOps)

\* A word write of 512 bytes announced 256 words and sent them in one burst.
C21_Witness ==
    /\ Finished
    /\ call.op = "write_data_words"
    /\ call.args.size = 512
    /\ DatalinkOps[2] = WireOp("repeat", 256, <<>>)
    /\ UnitsOf(DatalinkOps[3]) = 256

\* The length of the transfer in units of its width.
TransferUnits ==
    IF call.op = "write_data_words" THEN call.args.size \div 2 ELSE call.args.size

DirectOps == {"ld", "ld16", "st", "st16"}

Repeats == SelectSeq(DatalinkOps, LAMBDA e : e.w = "repeat")
PointerSets == SelectSeq(DatalinkOps, LAMBDA e : e.w = "st_ptr")

\* C22 as stated: each of the four transfers carries out one or two units
\* with as many direct loads or stores, without pointer-set and without
\* REPEAT, and uses REPEAT only for more than two units.
C22_ShortTransfersDirect ==
    (Finished /\ call.out = "ok" /\ call.op \in ReadWriteTransfers /\ ProperPayload) =>
        /\ TransferUnits \in {1, 2} =>
              /\ Repeats = <<>>
              /\ PointerSets = <<>>
              /\ Len(DatalinkOps) = TransferUnits
              /\ \A i \in 1 .. Len(DatalinkOps) : DatalinkOps[i].w \in DirectOps
        /\ Repeats # <<>> => TransferUnits > 2

\* C22, amended: only the writes have short cuts.  write_data stores one byte
\* with one direct store and two bytes with two, and write_data_words stores
\* a single word with one direct 16-bit store, all without pointer-set and
\* REPEAT; two words are written as a burst with pointer-set and REPEAT.  The
\* reads always set the pointer and use a pointer-increment load, with a
\* REPEAT whenever more than one unit is read.
C22_ShortCutsOfWrites ==
    (Finished /\ call.out = "ok" /\ call.op \in ReadWriteTransfers /\ ProperPayload) =>
        /\ (call.op = "readwrite.write_data" /\ call.args.size \in {1, 2}) =>
              DatalinkOps = [i \in 1 .. call.args.size |->
                                WireOp("st", call.args.address + i - 1,
                                       <<call.args.data[i]>>)]
        /\ (call.op = "readwrite.write_data" /\ call.args.size > 2) => Repeats # <<>>
        /\ (call.op = "write_data_words" /\ call.args.size = 2) =>
              DatalinkOps = << WireOp("st16", call.args.address,
                                      <<call.args.data[1] + 256 * call.args.data[2]>>) >>
        /\ (call.op = "write_data_words" /\ call.args.size = 4) =>
              DatalinkOps = << WireOp("st_ptr", call.args.address, <<>>),
                               WireOp("repeat", 2, <<>>),
                               WireOp("st_ptr_inc16", 0, call.args.data) >>
        /\ (call.op \in {"read_data", "read_data_words"}) =>
              LET load == IF call.op = "read_data" THEN "ld_ptr_inc" ELSE "ld_ptr_inc16"
              IN  DatalinkOps =
                      << WireOp("st_ptr", call.args.address, <<>>) >>
                      \o (IF call.args.size > 1
                          THEN << WireOp("repeat", call.args.size, <<>>) >> ELSE <<>>)
                      \o << WireOp(load, call.args.size, <<>>) >>

\* Two bytes were written with two direct stores.
C22_Witness ==
    /\ Finished
    /\ call.op = "readwrite.write_data"
    /\ call.args.size = 2
    /\ Len(DatalinkOps) = 2
    /\ DatalinkOps[2] = WireOp("st", call.args.address + 1, <<2>>)

----------------------------------------------------------------------------
(* write_user_row against the write it is implemented as *)

StateNext == [app |-> app', call |-> call', wire |-> wire', ctrla |-> ctrla']

\* t is what one statement of `code` makes of s, for some value the target
\* may return.
StepOf(code, s, t) ==
    \E inp \in Inputs(s, code[s.call.pc]) :
        t = Finish(Exec(s, code[s.call.pc], inp), Len(code))

\* Every step of a call of `op` is a step the method with body `code` can
\* take from the same state with the same arguments.
StepsAs(op, code(_, _)) ==
    (call.pc # 0 /\ call.op = op) =>
        StepOf(code(call.args.address, call.args.data), State, StateNext)

\* The state with the access width of the payload writes left out.
WidthBlind(s) ==
    [s EXCEPT !.wire = [i \in 1 .. Len(s.wire) |->
                           IF s.wire[i].w = "write_data_words"
                           THEN WireOp("write_data", s.wire[i].a, s.wire[i].d)
                           ELSE s.wire[i]]]

WidthBlindStepsAs(op, code(_, _)) ==
    (call.pc # 0 /\ call.op = op) =>
        \E inp \in Inputs(State, code(call.args.address, call.args.data)[call.pc]) :
            WidthBlind(StateNext) =
                WidthBlind(Finish(Exec(State,
                                       code(call.args.address, call.args.data)[call.pc], inp),
                                  Len(code(call.args.address, call.args.data))))

----------------------------------------------------------------------------
(* Timeout budgets of the ready-waits *)

ChipEraseOps == {"P0.chip_erase", "P4.chip_erase", "P5.chip_erase"}

ChipEraseCommand ==
    IF call.op = "P0.chip_erase" THEN P0_NVMCMD_CHIP_ERASE
    ELSE IF call.op = "P4.chip_erase" THEN P4_NVMCMD_CHIP_ERASE
    ELSE P5_NVMCMD_CHIP_ERASE

\* A STATUS read of a ready-wait has followed the chip-erase command.
PolledAfterChipErase ==
    \E i \in 1 .. Len(wire) :
        /\ wire[i].w = "write_byte"
        /\ wire[i].a = nvmctrl_address
        /\ wire[i].d = <<ChipEraseCommand>>
        /\ \E j \in i + 1 .. Len(wire) : wire[j].w = "read_byte"

\* A ready-wait of the current call has read STATUS or found its time expired.
Waited == call.op # "none" /\ (call.polls > 0 \/ call.expired)

\* C24: in chip_erase the ready-wait that follows the chip-erase command runs
\* with a budget of 10 s, and every other ready-wait of the drivers with
\* 100 ms.
C24_ChipEraseLongTimeout ==
    /\ (call.op \in ChipEraseOps /\ PolledAfterChipErase) => call.timeout_ms = 10000
    /\ (Waited /\ ~(call.op \in ChipEraseOps /\ PolledAfterChipErase)) =>
          call.timeout_ms = 100

----------------------------------------------------------------------------
(* Termination of the polling loops *)

Polling == call.pc # 0

\* The status the loop waits for.
Awaited(loop, status) ==
    CASE loop.name = "wait_nvm_ready" -> ~StatusBusy(loop.variant, status)
      [] loop.name = "wait_unlocked" -> Bit(status, UPDI_ASI_SYS_STATUS_LOCKSTATUS) = 0
      [] loop.name = "wait_urow_prog" ->
            Bit(status, UPDI_ASI_SYS_STATUS_UROWPROG) = (IF loop.wait_for_high THEN 1 ELSE 0)

ExitedOnStatus ==
    /\ call.out = "ok"
    /\ call.ret = "True"
    /\ call.reads = 1
    /\ Awaited(call.loop, call.rd)

ExitedOnTimeout ==
    /\ call.out = "ok"
    /\ call.ret = "False"
    /\ call.now - call.start_time > call.loop.timeout_ms

ExitedOnNvmError ==
    /\ call.out = "NvmError"
    /\ call.loop.name = "wait_nvm_ready"
    /\ call.reads = 1
    /\ StatusErrorField(call.loop.variant, call.rd) # 0

\* C25 as stated: every polling loop ends, and it ends because the awaited
\* status was read or because its timeout has expired.
C25_LoopsEndOnStatusOrTimeout ==
    /\ Polling ~> Finished
    /\ [](Finished => (ExitedOnStatus \/ ExitedOnTimeout))

\* C25, amended: every polling loop ends, because the awaited status was
\* read, because its timeout has expired or, in wait_nvm_ready, because the
\* status read reported an error, which is raised.
C25_LoopsEnd ==
    /\ Polling ~> Finished
    /\ [](Finished => (ExitedOnStatus \/ ExitedOnTimeout \/ ExitedOnNvmError))

\* wait_urow_prog gave up after more than 500 ms of reads that never showed
\* the awaited level.
C25_Witness ==
    /\ Finished
    /\ call.op = "wait_urow_prog"
    /\ ExitedOnTimeout
    /\ call.reads = 1
    /\ ~Awaited(call.loop, call.rd)

----------------------------------------------------------------------------
(* The device ID *)

\* The signature bytes as a number, first byte most significant.
SignatureValue == 65536 * call.sig[1] + 256 * call.sig[2] + call.sig[3]

SignatureRead ==
    \E i \in 1 .. Len(wire) : wire[i] = WireOp("read_data", sigrow_address, <<3>>)

\* C26: read_device_id reads three signature bytes at the signature row; when
\* their big-endian value is the expected device ID it returns the three bytes
\* in the reverse of the order read, and for any other three bytes it raises
\* the session error and returns nothing.
C26_DeviceIdChecked ==
    (call.op = "read_device_id" /\ Finished /\ Len(call.sig) = 3) =>
        /\ SignatureRead
        /\ IF SignatureValue = 2003751
           THEN /\ call.out = "ok"
                /\ call.ret = <<call.sig[3], call.sig[2], call.sig[1]>>
           ELSE /\ call.out = "SessionError"
                /\ call.ret = "None"

\* The signature 1E 93 27 was read and 27 93 1E returned.
C26_Witness ==
    /\ call.op = "read_device_id"
    /\ Finished
    /\ call.out = "ok"
    /\ call.sig = <<30, 147, 39>>
    /\ call.ret = <<39, 147, 30>>

\* C27 as stated: with expected device ID 0x1E9327, a signature read of
\* 27 93 1E passes the check and 27 93 1E is returned.
C27_LittleEndianReadPasses ==
    (call.op = "read_device_id" /\ Finished /\ call.sig = <<39, 147, 30>>) =>
        /\ call.out = "ok"
        /\ call.ret = <<39, 147, 30>>

\* C27, amended: with expected device ID 0x1E9327, a signature read of
\* 1E 93 27 passes the check and 27 93 1E is returned; a signature read of
\* 27 93 1E fails the check with the session error.
C27_BigEndianReadPasses ==
    (call.op = "read_device_id" /\ Finished) =>
        /\ device_id = 30 * 65536 + 147 * 256 + 39
        /\ call.sig = <<30, 147, 39>> =>
              /\ call.out = "ok"
              /\ call.ret = <<39, 147, 30>>
        /\ call.sig = <<39, 147, 30>> => call.out = "SessionError"

\* The signature read came back as 27 93 1E and was refused.
C27_Witness ==
    /\ call.op = "read_device_id"
    /\ Finished
    /\ call.sig = <<39, 147, 30>>
    /\ call.out = "SessionError"
    /\ wire[Len(wire)] = WireOp("read_data", sigrow_address, <<3>>)

----------------------------------------------------------------------------
(* The SIB of the first scenario *)

InstalledP0 ==
    /\ call.sib_info.k = "info"
    /\ call.sib_info.NVM = <<48>>
    /\ app.datalink.bits = 16
    /\ app.datalink.id # call.entry.datalink.id
    /\ app.readwrite.datalink = app.datalink.id
    /\ app.nvm.kind = "P0"
    /\ app.nvm.readwrite = app.readwrite.id

----------------------------------------------------------------------------
(* hold_in_reset and release_from_reset *)

\* C29: hold_in_reset puts nothing on the wire and changes no state of the
\* application, and release_from_reset does step by step what leave_progmode
\* does, so that the two together put on the wire what one leave_progmode
\* does: reset applied, reset released, UPDI disabled.
C29_HoldThenReleaseIsLeave ==
    [][/\ call'.op = "hold_in_reset" =>
             /\ wire' = <<>>
             /\ app' = app
             /\ ctrla' = ctrla
             /\ call'.pc = 0 => call'.out = "ok"
       /\ (call.pc # 0 /\ call.op = "release_from_reset") =>
             StepOf(leave_progmode_code, State, StateNext)
       /\ (call'.op = "release_from_reset" /\ call'.pc = 0 /\ call'.out = "ok") =>
             wire' = << ApplyReset, ReleaseReset, DisableUpdi >>]_vars

\* release_from_reset has ended after the three writes of leave_progmode.
C29_Witness ==
    /\ call.op = "release_from_reset"
    /\ Finished
    /\ call.out = "ok"
    /\ Len(wire) = 3
    /\ app = call.entry

----------------------------------------------------------------------------
(* The order of write_flash *)

WriteFlashOps == {"P0.write_flash", "P4.write_flash", "P5.write_flash"}

ReadyWait == WireOp("wait_nvm_ready", 0, <<>>)

\* The wire with every run of STATUS reads taken as the one ready-wait it
\* belongs to.
RECURSIVE Collapsed(_)
Collapsed(w) ==
    IF w = <<>> THEN <<>>
    ELSE LET rest == Collapsed(Tail(w))
         IN  IF Head(w).w # "read_byte" THEN << Head(w) >> \o rest
             ELSE IF rest # <<>> /\ Head(rest) = ReadyWait THEN rest
             ELSE << ReadyWait >> \o rest

\* The writes of a sequence, with the ready-waits and their STATUS reads left out.
Written(w) == SelectSeq(w, LAMBDA e : e.w \notin {"read_byte", "wait_nvm_ready"})

CommandWrite(command) == WireOp("write_byte", nvmctrl_address, << command >>)

WordPayload(c) == WireOp("write_data_words", c.args.address, c.args.data)

\* The sequence of the claim for the variant of the call c.
FlashSequence(c) ==
    IF c.op = "P0.write_flash"
    THEN << ReadyWait, CommandWrite(4), ReadyWait, WordPayload(c), CommandWrite(1),
            ReadyWait >>
    ELSE IF c.op = "P5.write_flash"
    THEN << ReadyWait, CommandWrite(15), ReadyWait, WordPayload(c), CommandWrite(4),
            ReadyWait, CommandWrite(0) >>
    ELSE << ReadyWait, CommandWrite(2), WordPayload(c), ReadyWait, CommandWrite(0) >>

CommitWrite(c) ==
    IF c.op = "P0.write_flash" THEN CommandWrite(1)
    ELSE IF c.op = "P5.write_flash" THEN CommandWrite(4)
    ELSE CommandWrite(2)

\* The statements of write_flash that are ready-waits before the payload.
WaitsBeforePayload(c) == IF c.op = "P4.write_flash" THEN {1} ELSE {1, 3}

IsPrefix(p, q) == Len(p) <= Len(q) /\ \A i \in 1 .. Len(p) : p[i] = q[i]

Carries(w, e) == \E i \in 1 .. Len(w) : w[i] = e

\* C30: write_flash emits the sequence of its variant in order: at any moment
\* what it has written is the beginning of that sequence, and when it returns
\* the wire is the whole of it, ready-waits included (P:0: wait, 0x04, wait,
\* word payload, 0x01, wait; P:5: wait, 0x0F, wait, word payload, 0x04, wait,
\* NOCMD; P:4: wait, 0x02, word payload, wait, NOCMD).  When a ready-wait
\* before the payload ends the call, it ends with an exception and neither
\* payload nor commit command is on the wire.
C30_WriteFlashInOrder ==
    [][call'.op \in WriteFlashOps =>
          /\ IsPrefix(Written(wire'), Written(FlashSequence(call')))
          /\ (call'.pc = 0 /\ call'.out = "ok") =>
                Collapsed(wire') = FlashSequence(call')
          /\ (call.pc \in WaitsBeforePayload(call') /\ call'.pc = 0) =>
                /\ call'.out \in {"NvmTimeout", "NvmError"}
                /\ ~Carries(wire', WordPayload(call'))
                /\ ~Carries(wire', CommitWrite(call'))]_vars

\* A P:0 flash write has returned after its six steps.
C30_Witness ==
    /\ call.op = "P0.write_flash"
    /\ Finished
    /\ call.out = "ok"
    /\ call.args.data = <<3, 4, 5, 6>>
    /\ Collapsed(wire) =
          << ReadyWait, CommandWrite(P0_NVMCMD_PAGE_BUFFER_CLR), ReadyWait,
             WireOp("write_data_words", call.args.address, <<3, 4, 5, 6>>),
             CommandWrite(P0_NVMCMD_WRITE_PAGE), ReadyWait >>

\* A ready-wait before the payload of a flash write has timed out.
C30_WitnessNotReady ==
    /\ call.op \in WriteFlashOps
    /\ Finished
    /\ call.out = "NvmTimeout"
    /\ Len(Written(wire)) = 1

----------------------------------------------------------------------------
(* write_eeprom against write_flash *)

WriteEepromOps == {"P0.write_eeprom", "P4.write_eeprom", "P5.write_eeprom"}

\* The call c of write_eeprom taken as a call of write_flash of its variant.
AsFlashWrite(c) ==
    [c EXCEPT !.op = IF c.op = "P0.write_eeprom" THEN "P0.write_flash"
                     ELSE IF c.op = "P4.write_eeprom" THEN "P4.write_flash"
                     ELSE "P5.write_flash"]

BytePayload(c) == WireOp("write_data", c.args.address, c.args.data)

\* The EEPROM erase+write command of the variant of c, as the claim gives it.
EepromCommit(c) ==
    IF c.op = "P0.write_eeprom" THEN CommandWrite(3)
    ELSE IF c.op = "P4.write_eeprom" THEN CommandWrite(19)
    ELSE CommandWrite(21)

\* The flash write sequence of the variant with the payload sent with byte
\* access, the EEPROM erase+write command for the flash command and, on P:5,
\* the EEPROM page-buffer clear (0x1F) for the flash one (0x0F).
EepromSequence(c) ==
    LET f == AsFlashWrite(c)
        flash == FlashSequence(f)
    IN  [i \in 1 .. Len(flash) |->
            IF flash[i] = WordPayload(f) THEN BytePayload(c)
            ELSE IF flash[i] = CommitWrite(f) THEN EepromCommit(c)
            ELSE IF c.op = "P5.write_eeprom" /\ flash[i] = CommandWrite(15)
                 THEN CommandWrite(31)
            ELSE flash[i]]

\* C31: write_eeprom follows the flash write sequence of its variant with the
\* payload sent with byte access and never with word access, with the EEPROM
\* erase+write command (0x03 on P:0 after the shared page-buffer clear, 0x13
\* on P:4 before the payload and followed by NOCMD, 0x15 on P:5) and on P:5
\* with the EEPROM page-buffer clear 0x1F.
C31_WriteEepromByteAccess ==
    [][call'.op \in WriteEepromOps =>
          /\ IsPrefix(Written(wire'), Written(EepromSequence(call')))
          /\ \A i \in 1 .. Len(wire') : wire'[i].w # "write_data_words"
          /\ (call'.pc = 0 /\ call'.out = "ok") =>
                Collapsed(wire') = EepromSequence(call')]_vars

\* A P:4 EEPROM write has returned: wait, 0x13, byte payload, wait, NOCMD.
C31_Witness ==
    /\ call.op = "P4.write_eeprom"
    /\ Finished
    /\ call.out = "ok"
    /\ Collapsed(wire) =
          << ReadyWait, CommandWrite(P4_NVMCMD_EEPROM_ERASE_WRITE),
             WireOp("write_data", call.args.address, call.args.data),
             ReadyWait, CommandWrite(P4_NVMCMD_NOCMD) >>

\* A P:5 EEPROM write has returned after clearing the EEPROM page buffer.
C31_WitnessP5 ==
    /\ call.op = "P5.write_eeprom"
    /\ Finished
    /\ call.out = "ok"
    /\ Written(wire) =
          << CommandWrite(P5_NVMCMD_EEPROM_PAGE_BUFFER_CLEAR),
             WireOp("write_data", call.args.address, call.args.data),
             CommandWrite(P5_NVMCMD_EEPROM_PAGE_ERASE_WRITE),
             CommandWrite(P5_NVMCMD_NOCMD) >>

----------------------------------------------------------------------------
(* The order of erase_flash_page *)

EraseFlashPageOps == {"P0.erase_flash_page", "P4.erase_flash_page", "P5.erase_flash_page"}

DummyWrite(c) == WireOp("write_data", c.args.address, <<255>>)

PageEraseCommand(c) ==
    IF c.op = "P0.erase_flash_page" THEN CommandWrite(2) ELSE CommandWrite(8)

\* The sequence of the claim for the variant of the call c.
PageEraseSequence(c) ==
    IF c.op = "P0.erase_flash_page"
    THEN << ReadyWait, DummyWrite(c), CommandWrite(2), ReadyWait >>
    ELSE IF c.op = "P4.erase_flash_page"
    THEN << ReadyWait, CommandWrite(8), DummyWrite(c), ReadyWait, CommandWrite(0) >>
    ELSE << ReadyWait, DummyWrite(c), CommandWrite(8), ReadyWait, CommandWrite(0) >>

Count(w, e) == Cardinality({i \in 1 .. Len(w) : w[i] = e})

\* C32: erase_flash_page orders dummy write and erase command per variant
\* (P:0: wait, dummy write of 0xFF at the page address, 0x02, wait; P:4: wait,
\* 0x08, dummy write, wait, NOCMD; P:5: wait, dummy write, 0x08, wait, NOCMD):
\* what it has written is at any moment the beginning of that sequence, a call
\* that returns has emitted all of it, and so has emitted exactly one dummy
\* write and exactly one erase command, and no call emits more than one.
C32_ErasePageInOrder ==
    [][call'.op \in EraseFlashPageOps =>
          /\ IsPrefix(Written(wire'), Written(PageEraseSequence(call')))
          /\ Count(wire', DummyWrite(call')) <= 1
          /\ Count(wire', PageEraseCommand(call')) <= 1
          /\ \A i \in 1 .. Len(wire') :
                wire'[i].w \in {"write_data", "write_data_words"} =>
                    wire'[i] = DummyWrite(call')
          /\ (call'.pc = 0 /\ call'.out = "ok") =>
                /\ Collapsed(wire') = PageEraseSequence(call')
                /\ Count(wire', DummyWrite(call')) = 1
                /\ Count(wire', PageEraseCommand(call')) = 1]_vars

\* A P:5 page erase has returned: wait, dummy write, 0x08, wait, NOCMD.
C32_Witness ==
    /\ call.op = "P5.erase_flash_page"
    /\ Finished
    /\ call.out = "ok"
    /\ Collapsed(wire) =
          << ReadyWait, WireOp("write_data", call.args.address, <<255>>),
             CommandWrite(P5_NVMCMD_FLASH_PAGE_ERASE), ReadyWait,
             CommandWrite(P5_NVMCMD_NOCMD) >>

----------------------------------------------------------------------------
(* write_fuse *)

\* The sequence of the claim for a call c of write_fuse on P:0.
FuseSequence(c) ==
    << ReadyWait,
       WireOp("write_byte", nvmctrl_address + 8, << c.args.address % 256 >>),
       WireOp("write_byte", nvmctrl_address + 8 + 1, << (c.args.address \div 256) % 256 >>),
       WireOp("write_byte", nvmctrl_address + 6, << c.args.data[1] % 256 >>),
       CommandWrite(7),
       ReadyWait >>

AsEepromWrite(c) ==
    [c EXCEPT !.op = IF c.op = "P4.write_fuse" THEN "P4.write_eeprom" ELSE "P5.write_eeprom"]

\* C33: on P:0 write_fuse emits, in order, ready-wait, the low byte of the
\* address to ADDR (offset 0x08), the high byte to ADDR+1, the first payload
\* byte to DATA (offset 0x06), WRITE_FUSE (0x07) to CTRLA and ready-wait, so
\* the command is never written before the address bytes and the data byte;
\* on P:4 and P:5 write_fuse does step by step what write_eeprom does for the
\* same address and payload and leaves the wire sequence of write_eeprom.
C33_WriteFuse ==
    [][/\ call'.op = "P0.write_fuse" =>
             /\ IsPrefix(Written(wire'), Written(FuseSequence(call')))
             /\ (call'.pc = 0 /\ call'.out = "ok") =>
                   Collapsed(wire') = FuseSequence(call')
       /\ StepsAs("P4.write_fuse", P4_write_eeprom_code)
       /\ StepsAs("P5.write_fuse", P5_write_eeprom_code)
       /\ (call'.op \in {"P4.write_fuse", "P5.write_fuse"}
             /\ call'.pc = 0 /\ call'.out = "ok") =>
             Collapsed(wire') = EepromSequence(AsEepromWrite(call'))]_vars

\* A fuse at 0x1285 has been written on P:0: 0x85 to ADDR, 0x12 to ADDR+1.
C33_Witness ==
    /\ call.op = "P0.write_fuse"
    /\ Finished
    /\ call.out = "ok"
    /\ call.args.address = 4741
    /\ Written(wire) =
          << WireOp("write_byte", nvmctrl_address + P0_NVMCTRL_ADDR, <<133>>),
             WireOp("write_byte", nvmctrl_address + P0_NVMCTRL_ADDR + 1, <<18>>),
             WireOp("write_byte", nvmctrl_address + P0_NVMCTRL_DATA, << call.args.data[1] >>),
             CommandWrite(P0_NVMCMD_WRITE_FUSE) >>

\* A fuse has been written on P:4 through write_eeprom.
C33_WitnessP4 ==
    /\ call.op = "P4.write_fuse"
    /\ Finished
    /\ call.out = "ok"
    /\ Written(wire) =
          << CommandWrite(P4_NVMCMD_EEPROM_ERASE_WRITE),
             WireOp("write_data", call.args.address, call.args.data),
             CommandWrite(P4_NVMCMD_NOCMD) >>

----------------------------------------------------------------------------
(* The chunks of write_data *)

\* A call of UpdiReadWrite.write_data with three bytes or more.
ChunkedWrite == call.op = "readwrite.write_data" /\ call.args.size >= 3

\* ceil(n / 256)
CeilDiv256(n) == (n + 255) \div 256

\* The bytes a sequence of bursts stores, each with the address the pointer
\* has when it is stored, in the order in which they are sent.
RECURSIVE StoredBytes(_)
StoredBytes(ops) ==
    IF Len(ops) < 3 THEN <<>>
    ELSE [o \in 1 .. Len(ops[3].d) |-> << ops[1].a + o - 1, ops[3].d[o] >>]
         \o StoredBytes(SubSeq(ops, 4, Len(ops)))

\* C34: write_data with three bytes or more performs ceil(len / 256) bursts in
\* ascending address order, burst i setting the pointer to addr + 256 * i and
\* transferring data[256 * i : 256 * (i + 1)], none of more than 256 bytes,
\* every byte of data going out exactly once at addr + its index; and the loop
\* terminates: a call in progress always comes to its end.
C34_WriteDataChunks ==
    /\ [](Finished /\ ChunkedWrite =>
            /\ call.out = "ok"
            /\ Len(DatalinkOps) = 3 * CeilDiv256(call.args.size)
            /\ \A i \in 0 .. CeilDiv256(call.args.size) - 1 :
                  /\ DatalinkOps[3 * i + 1] = WireOp("st_ptr", call.args.address + 256 * i, <<>>)
                  /\ DatalinkOps[3 * i + 2].w = "repeat"
                  /\ DatalinkOps[3 * i + 2].a = Len(DatalinkOps[3 * i + 3].d)
                  /\ DatalinkOps[3 * i + 3].w = "st_ptr_inc"
                  /\ DatalinkOps[3 * i + 3].d = Slice(call.args.data, 256 * i, 256 * (i + 1))
                  /\ Len(DatalinkOps[3 * i + 3].d) \in 1 .. 256
            /\ StoredBytes(DatalinkOps) =
                  [j \in 1 .. call.args.size |->
                      << call.args.address + j - 1, call.args.data[j] >>])
    /\ (ChunkedWrite /\ ~Finished) ~> (ChunkedWrite /\ Finished)

\* 513 bytes went out as 256, 256 and 1, the last one at addr + 512.
C34_Witness ==
    /\ Finished
    /\ ChunkedWrite
    /\ call.args.size = 513
    /\ Len(DatalinkOps) = 9
    /\ DatalinkOps[7] = WireOp("st_ptr", call.args.address + 512, <<>>)
    /\ DatalinkOps[9].d = << 513 % 251 >>
    /\ DatalinkOps[6].d # DatalinkOps[3].d

----------------------------------------------------------------------------
(* Commands and the ready-waits before them *)

IsCtrlaWrite(e) == e.w = "write_byte" /\ e.a = nvmctrl_address

\* The step writes `command` to CTRLA.
WritesCommand(command) == wire' = Append(wire, CommandWrite(command))

\* The most recent ready-wait of the call read STATUS after the last write of
\* CTRLA, did not time out, and the last STATUS it read showed no error and
\* nothing busy: it reported ready.
ReadyWaitSinceLastCommand ==
    /\ ~call.expired
    /\ call.reads = 1
    /\ ~StatusBusy(app.nvm.kind, call.rd)
    /\ StatusErrorField(app.nvm.kind, call.rd) = 0
    /\ \E j \in 1 .. Len(wire) :
          /\ wire[j] = WireOp("read_byte", StatusAddress(app.nvm.kind), <<>>)
          /\ \A k \in j + 1 .. Len(wire) : ~IsCtrlaWrite(wire[k])

\* C35: in the P:0, P:4 and P:5 drivers every write of a command other than
\* NOCMD to CTRLA is preceded, with no other CTRLA write in between, by a
\* ready-wait that reported ready; once a ready-wait of an operation has
\* reported not-ready (timeout), no further ready-wait is made and every later
\* CTRLA write of the operation is NOCMD.
C35_CommandsAfterReady ==
    [][(call.pc # 0 /\ app.nvm.kind \in {"P0", "P4", "P5"}) =>
          /\ \A command \in 1 .. 255 :
                WritesCommand(command) => ReadyWaitSinceLastCommand
          /\ call.expired =>
                /\ call'.expired
                /\ Len(wire') > Len(wire) => WritesCommand(0)]_vars

\* On P:4 the ready-wait after EEPROM_ERASE timed out and NOCMD followed.
C35_Witness ==
    /\ call.op = "P4.erase_eeprom"
    /\ Finished
    /\ call.out = "NvmTimeout"
    /\ call.expired
    /\ CtrlaWrites = << P4_NVMCMD_EEPROM_ERASE, P4_NVMCMD_NOCMD >>

----------------------------------------------------------------------------
(* The reset line at the exits of enter_progmode *)

\* The values written to ASI_RESET_REQ by the current call, in order.
ResetRequests ==
    LET ws == SelectSeq(wire, LAMBDA e : e.w = "write_cs" /\ e.a = UPDI_ASI_RESET_REQ)
    IN  [i \in 1 .. Len(ws) |-> ws[i].d[1]]

KeyRejected == Len(call.rx) >= 2 /\ Bit(call.rx[2], 4) = 0

\* C36: when enter_progmode fails because the key was not accepted, the last
\* value written to ASI_RESET_REQ is 0x59 and no release was written, so the
\* target stays in reset; at every other exit that wrote to ASI_RESET_REQ
\* (success, Locked, NVMPROG missing) the last value written is 0x00.
C36_ResetAtExits ==
    (call.op = "enter_progmode" /\ Finished /\ ResetRequests # <<>>) =>
        IF KeyRejected
        THEN /\ call.out = "SerialUpdiError"
             /\ ResetRequests[Len(ResetRequests)] = 89
             /\ \A i \in 1 .. Len(ResetRequests) : ResetRequests[i] # 0
             /\ wire[Len(wire)] = ReadKeyStatus
        ELSE /\ call.out \in {"ok", "Locked", "SerialUpdiError"}
             /\ ResetRequests[Len(ResetRequests)] = 0

\* The key was rejected: reset was applied once and nothing followed the read
\* of the key status.
C36_Witness ==
    /\ call.op = "enter_progmode"
    /\ Finished
    /\ call.out = "SerialUpdiError"
    /\ KeyRejected
    /\ wire = << ReadSysStatus, ApplyReset, NvmProgKey, ReadKeyStatus >>

\* The device stayed locked: reset was released before the Locked error.
C36_WitnessLocked ==
    /\ call.op = "enter_progmode"
    /\ Finished
    /\ call.out = "Locked"
    /\ ResetRequests = << 89, 89, 0 >>

----------------------------------------------------------------------------
(* Datalink width and driver over a session *)

\* C37: after any sequence of read_device_info calls, whatever SIBs the target
\* returned, the datalink is in 16-bit address mode exactly when the active
\* driver is the P:0 driver, and the active driver's read/write layer is the
\* current read/write layer of the application, on the current datalink.
C37_WidthMatchesDriver ==
    /\ app.datalink.bits = 16 <=> app.nvm.kind = "P0"
    /\ app.nvm.readwrite = app.readwrite.id
    /\ app.readwrite.datalink = app.datalink.id

----------------------------------------------------------------------------
(* SIBs without the field separator *)

\* An ASCII SIB of at least 19 characters whose NVM field (bytes 8 to 10) or
\* OCD field (bytes 11 to 13) holds no ':'.
MissingSeparator(sib) ==
    /\ ~Undecodable(sib)
    /\ \/ \A i \in 9 .. 11 : sib[i] # 58
       \/ \A i \in 12 .. 14 : sib[i] # 58

\* C38: decode_sib never fails with an unhandled error: read_device_info ends
\* with its result or with the error of the failed recovery, and a SIB whose
\* NVM or OCD field holds no ':' is treated as malformed, so that the
\* double-break recovery follows it.
C38_DecodeSibNeverFails ==
    (call.op = "read_device_info" /\ Finished) =>
        /\ call.out \in {"ok", "SerialUpdiError"}
        /\ (Len(call.sibs) >= 1 /\ MissingSeparator(call.sibs[1])) => DoubleBreaks = 1

----------------------------------------------------------------------------
(* The provisional driver *)

NvmUpdiOperations ==
    {"NvmUpdi.chip_erase", "NvmUpdi.erase_flash_page", "NvmUpdi.erase_eeprom",
     "NvmUpdi.erase_user_row", "NvmUpdi.write_flash", "NvmUpdi.write_user_row",
     "NvmUpdi.write_eeprom", "NvmUpdi.write_fuse"}

\* The NVM characters that have a driver: '0', '2', '3', '4', '5'.
SupportedNvm == {<<48>>, <<50>>, <<51>>, <<52>>, <<53>>}

\* The step is the one of read_device_info that follows the decoding of a
\* supported NVM character.
DecodedSupported ==
    /\ call.op = "read_device_info"
    /\ call.sib_info.k = "info"
    /\ call.sib_info.NVM \in SupportedNvm

\* C39: the session starts with the provisional base driver on the 24-bit
\* datalink, and datalink and driver change only in a read_device_info that
\* has decoded a supported NVM character; one that decoded an unsupported
\* character returns without error and leaves both as they were.  Each of the
\* eight operations of the base driver fails with the not-ready error with
\* nothing sent through the read/write layer.
C39_ProvisionalDriverNotReady ==
    /\ app.nvm.kind = "NvmUpdi" /\ app.datalink.bits = 24
    /\ [][/\ app' # app => DecodedSupported
          /\ (call'.op = "read_device_info" /\ call'.pc = 0 /\ call'.sib_info.k = "info"
                /\ call'.sib_info.NVM \notin SupportedNvm) =>
                (call'.out = "ok" /\ app' = call'.entry)
          /\ call'.op \in NvmUpdiOperations =>
                /\ app'.nvm.kind = "NvmUpdi"
                /\ wire' = <<>>
                /\ call'.pc = 0 => call'.out = "NotImplementedError"]_vars

\* write_flash was called on the base driver of a fresh session and failed
\* with nothing sent.
C39_Witness ==
    /\ call.op = "NvmUpdi.write_flash"
    /\ Finished
    /\ call.out = "NotImplementedError"
    /\ wire = <<>>
    /\ app = AppInit

\* A SIB with the unsupported NVM character '1' was decoded and changed nothing.
C39_WitnessUnsupported ==
    /\ call.op = "read_device_info"
    /\ Finished
    /\ call.out = "ok"
    /\ call.sib_info.NVM = <<49>>
    /\ app = AppInit

----------------------------------------------------------------------------
(* The chunks of NvmAccessProviderSerial.write *)

PagedMemories == {"flash", "eeprom", "fuses", "lockbits"}

\* A write to one of the memories that are written page by page.
PagedWrite == call.op = "write" /\ call.args.memory_info.name \in PagedMemories

\* A write to the user row with the user-row-locked-device option.
LockedUserRowWrite ==
    call.op = "write" /\ call.args.memory_info.name = "user_row" /\ call.args.option

PageSize == call.args.memory_info.page_size

\* ceil(len(data_aligned) / PAGE_SIZE)
PageCount == (Len(call.args.data) + PageSize - 1) \div PageSize

\* The driver operation of a memory, as the claim gives it.
OperationOf(name) ==
    CASE name \in {"fuses", "lockbits"} -> "nvm.write_fuse"
      [] name = "eeprom" -> "nvm.write_eeprom"
      [] name = "flash" -> "nvm.write_flash"

RECURSIVE Concatenated(_)
Concatenated(calls) ==
    IF calls = <<>> THEN <<>> ELSE Head(calls).d \o Concatenated(Tail(calls))

DriverCalls == SelectSeq(wire, LAMBDA e : e.w # "avr.write_user_row_locked_device")

\* C40: write hands the aligned data of flash, EEPROM, fuses and lockbits to
\* the driver as consecutive chunks: chunk i at aligned offset + memory base +
\* i * PAGE_SIZE, none longer than PAGE_SIZE and only the last one shorter,
\* the chunks together being the aligned data, each through the operation of
\* its memory (write_fuse for fuses and lockbits, write_eeprom, write_flash);
\* for the user row with the user-row-locked-device option no driver
\* operation is called and write_user_row_locked_device exactly once; and the
\* loop terminates.
C40_WriteInPages ==
    /\ []((Finished /\ PagedWrite) =>
            /\ call.out = "ok"
            /\ Len(wire) = PageCount
            /\ \A i \in 0 .. PageCount - 1 :
                  /\ wire[i + 1].w = OperationOf(call.args.memory_info.name)
                  /\ wire[i + 1].a =
                        call.args.address + call.args.memory_info.address + i * PageSize
                  /\ Len(wire[i + 1].d) \in 1 .. PageSize
                  /\ i < PageCount - 1 => Len(wire[i + 1].d) = PageSize
            /\ Concatenated(wire) = call.args.data)
    /\ []((Finished /\ LockedUserRowWrite) =>
            /\ call.out = "ok"
            /\ DriverCalls = <<>>
            /\ Len(wire) = 1
            /\ wire[1].w = "avr.write_user_row_locked_device"
            /\ wire[1].a = call.args.address + call.args.memory_info.address)
    /\ (call.op = "write" /\ ~Finished) ~> (call.op = "write" /\ Finished)

\* 130 bytes of flash went out as pages of 64, 64 and 2 bytes.
C40_Witness ==
    /\ Finished
    /\ PagedWrite
    /\ call.args.address = 64
    /\ Len(call.args.data) = 130
    /\ Len(wire) = 3
    /\ wire[3] = WireOp("nvm.write_flash", 32768 + 64 + 128, << 129, 130 >>)

\* The user row of a locked device was written in one call.
C40_WitnessLocked ==
    /\ Finished
    /\ LockedUserRowWrite
    /\ Len(call.args.data) = 3
    /\ wire = << WireOp("avr.write_user_row_locked_device", 4864, << 1, 2, 3 >>) >>

====
